---- MODULE Spec2Model ----
(***************************************************************************)
(* RequestTap gateway: the /api/* admission pipeline (route match,         *)
(* idempotency, mandate, payment, upstream proxy), the in-memory replay    *)
(* store with its expiry timers, the two spend ledgers and the receipt     *)
(* store.  Each request is a process whose position is the await point it  *)
(* is suspended at; one action is one run-to-completion segment of the     *)
(* handler.  Prices are decimal strings, amounts doubles, time in ticks.    *)
(***************************************************************************)
EXTENDS Integers, Sequences, FiniteSets, TLC

\* ---------------------------------------------------------------- bounds
NumReqs == 2
MaxTime == 3
ReplayTtl == 2
TicksPerDay == 2

Reqs == 1..NumReqs

\* ---------------------------------------------------------------- decimals
\* A price string such as "0.2": its digits and the number of them after the
\* point.
Decimal(digits, fractionDigits) == [digits |-> digits, fractionDigits |-> fractionDigits]

\* ---------------------------------------------------------------- doubles
\* The Number arithmetic of the budget checks on decimal fractions.  A
\* double x with 0 <= x < 2 that is zero or at least 2^-6 is a multiple of
\* 2^-59; it is kept as the two 30-bit limbs of the integer x * 2^59.
Limb == 2 ^ 30

Double(hi, lo) == [hi |-> hi, lo |-> lo]

DoubleZero == Double(0, 0)

RECURSIVE bitLength(_)
bitLength(n) == IF n = 0 THEN 0 ELSE 1 + bitLength(n \div 2)

\* Round the exact value (hi, lo), with sticky set when bits beyond lo were
\* cut off, to 53 significant bits, ties to even.
roundToDouble(hi, lo, sticky) ==
  LET p == IF hi > 0 THEN 30 + bitLength(hi) ELSE bitLength(lo)
      d == p - 53
  IN IF d <= 0 THEN Double(hi, lo)
     ELSE LET unit == 2 ^ d
              r == lo % unit
              q == lo \div unit
              up == r > unit \div 2 \/ (r = unit \div 2 /\ (sticky \/ q % 2 = 1))
              lo2 == (IF up THEN q + 1 ELSE q) * unit
          IN IF lo2 = Limb THEN Double(hi + 1, 0) ELSE Double(hi, lo2)

\* The next k binary digits of rem / den, and what remains.
shiftDivide(rem, den, k) == [q |-> (rem * 2 ^ k) \div den, rem |-> (rem * 2 ^ k) % den]

\* parseFloat of the decimal string of digits / 10^fractionDigits (also the
\* value JSON.parse gives a number literal): the double nearest to it, from
\* its integer part and 59 binary digits of its fraction.
parseFloat(decimal) ==
  LET den == 10 ^ decimal.fractionDigits
      d1 == shiftDivide(decimal.digits % den, den, 14)
      d2 == shiftDivide(d1.rem, den, 15)
      d3 == shiftDivide(d2.rem, den, 15)
      d4 == shiftDivide(d3.rem, den, 15)
  IN roundToDouble((decimal.digits \div den) * 2 ^ 29 + d1.q * 2 ^ 15 + d2.q,
                   d3.q * 2 ^ 15 + d4.q, d4.rem # 0)

\* a + b on doubles: the exact sum, rounded.
doubleAdd(a, b) ==
  roundToDouble(a.hi + b.hi + (a.lo + b.lo) \div Limb, (a.lo + b.lo) % Limb, FALSE)

doubleGreater(a, b) == a.hi > b.hi \/ (a.hi = b.hi /\ a.lo > b.lo)

\* ---------------------------------------------------------------- strings
\* Host names are sequences of one-character strings, so that the prefix
\* tests, the split and the number parsing of the code can be computed.
DecDigits == <<"0", "1", "2", "3", "4", "5", "6", "7", "8", "9">>

HexDigits ==
  <<"0", "1", "2", "3", "4", "5", "6", "7", "8", "9", "a", "b", "c", "d", "e", "f">>

RECURSIVE decimalString(_)
decimalString(n) ==
  IF n < 10 THEN <<DecDigits[n + 1]>>
  ELSE decimalString(n \div 10) \o <<DecDigits[(n % 10) + 1]>>

RECURSIVE hexString(_)
hexString(n) ==
  IF n < 16 THEN <<HexDigits[n + 1]>>
  ELSE hexString(n \div 16) \o <<HexDigits[(n % 16) + 1]>>

startsWith(str, prefix) ==
  Len(str) >= Len(prefix) /\ SubSeq(str, 1, Len(prefix)) = prefix

\* String.prototype.split on a one-character separator.
RECURSIVE split(_, _)
split(str, sep) ==
  IF \A i \in 1..Len(str) : str[i] # sep THEN <<str>>
  ELSE LET i == CHOOSE k \in 1..Len(str) :
                  str[k] = sep /\ \A j \in 1..(k - 1) : str[j] # sep
       IN <<SubSeq(str, 1, i - 1)>> \o split(SubSeq(str, i + 1, Len(str)), sep)

\* Number(part) for the parts of a host name: the empty string is 0, a run
\* of decimal digits its value, anything else NaN.
NaN == -1

DigitValue(ch) == (CHOOSE k \in 1..10 : DecDigits[k] = ch) - 1

RECURSIVE Number(_)
Number(part) ==
  IF part = <<>> THEN 0
  ELSE IF \E i \in 1..Len(part) : \A k \in 1..10 : DecDigits[k] # part[i] THEN NaN
  ELSE IF Len(part) = 1 THEN DigitValue(part[1])
  ELSE 10 * Number(SubSeq(part, 1, Len(part) - 1)) + DigitValue(part[Len(part)])

\* The characters of the model in the order of their UTF-16 code units.
CodeUnits ==
  <<" ", "&", ",", "-", ".", "/", "0", "1", "2", "3", "4", "5", "6", "7", "8", "9",
    "=", "A", "B", "C", "D", "E", "F", "G", "H", "I", "J", "K", "L", "M", "N",
    "O", "P", "Q", "R", "S", "T", "U", "V", "W", "X", "Y", "Z", "_",
    "a", "b", "c", "d", "e", "f", "g", "h", "i", "j", "k", "l", "m", "n",
    "o", "p", "q", "r", "s", "t", "u", "v", "w", "x", "y", "z", "{", "|", "}">>

codeUnit(ch) == CHOOSE k \in 1..Len(CodeUnits) : CodeUnits[k] = ch

UpperLetters == <<"A", "B", "C", "D", "E", "F", "G", "H", "I", "J", "K", "L", "M", "N", "O", "P", "Q", "R", "S", "T", "U", "V", "W", "X", "Y", "Z">>

LowerLetters == <<"a", "b", "c", "d", "e", "f", "g", "h", "i", "j", "k", "l", "m", "n", "o", "p", "q", "r", "s", "t", "u", "v", "w", "x", "y", "z">>

toUpperCase(str) ==
  [i \in 1..Len(str) |->
     IF \E k \in 1..26 : LowerLetters[k] = str[i]
       THEN UpperLetters[CHOOSE k \in 1..26 : LowerLetters[k] = str[i]]
       ELSE str[i]]

toLowerCase(str) ==
  [i \in 1..Len(str) |->
     IF \E k \in 1..26 : UpperLetters[k] = str[i]
       THEN LowerLetters[CHOOSE k \in 1..26 : UpperLetters[k] = str[i]]
       ELSE str[i]]

\* The comparison of Array.prototype.sort without a comparator: by code units.
RECURSIVE stringLess(_, _)
stringLess(a, b) ==
  IF b = <<>> THEN FALSE
  ELSE IF a = <<>> THEN TRUE
  ELSE IF a[1] # b[1] THEN codeUnit(a[1]) < codeUnit(b[1])
  ELSE stringLess(Tail(a), Tail(b))

RECURSIVE sort(_)
sort(strs) ==
  IF Len(strs) <= 1 THEN strs
  ELSE LET i == CHOOSE k \in 1..Len(strs) :
                  \A j \in 1..Len(strs) : ~stringLess(strs[j], strs[k])
       IN <<strs[i]>> \o sort(SubSeq(strs, 1, i - 1) \o SubSeq(strs, i + 1, Len(strs)))

\* encodeURIComponent: letters, digits and - _ . stay, the other characters
\* of the model become their percent escapes.
encodeChar(ch) ==
  IF ch = " " THEN <<"%", "2", "0">>
  ELSE IF ch = "&" THEN <<"%", "2", "6">>
  ELSE IF ch = "/" THEN <<"%", "2", "F">>
  ELSE IF ch = "=" THEN <<"%", "3", "D">>
  ELSE IF ch = "{" THEN <<"%", "7", "B">>
  ELSE IF ch = "|" THEN <<"%", "7", "C">>
  ELSE IF ch = "}" THEN <<"%", "7", "D">>
  ELSE <<ch>>

RECURSIVE encodeURIComponent(_)
encodeURIComponent(str) ==
  IF str = <<>> THEN <<>>
  ELSE encodeChar(str[1]) \o encodeURIComponent(Tail(str))

\* Array.prototype.join.
RECURSIVE join(_, _)
join(strs, sep) ==
  IF strs = <<>> THEN <<>>
  ELSE IF Len(strs) = 1 THEN strs[1]
  ELSE strs[1] \o <<sep>> \o join(Tail(strs), sep)

STR_localhost == <<"l", "o", "c", "a", "l", "h", "o", "s", "t">>

\* The trailing decimal digits of a string.
RECURSIVE trailingDigits(_)
trailingDigits(str) ==
  IF str = <<>> \/ \A k \in 1..10 : DecDigits[k] # str[Len(str)] THEN 0
  ELSE 1 + trailingDigits(SubSeq(str, 1, Len(str) - 1))

\* host.replace(/:\d+$/, ""): a trailing colon and digits are cut off.
stripPort(host) ==
  LET n == trailingDigits(host)
  IN IF n > 0 /\ Len(host) > n /\ host[Len(host) - n] = ":"
       THEN SubSeq(host, 1, Len(host) - n - 1)
       ELSE host

\* ---------------------------------------------------------------- inputs
\* The compiled route table: one paid and one free route.  PaidPrice and
\* BudgetUnits are in tenths of a USDC.
PaidPrice == 2
BudgetUnits == 3

routes ==
  { [path |-> <<"api", "paid">>, tool_id |-> "paid", price_usdc |-> Decimal(PaidPrice, 1)],
    [path |-> <<"api", "free">>, tool_id |-> "free", price_usdc |-> Decimal(0, 1)] }

Paths == {<<"api", "paid">>, <<"api", "free">>, <<"api", "none">>}

NoKey == "absent"
IdempotencyKeys == {NoKey, "K"}

\* config.gatewayDomain of the pipeline; the empty string when unset.
GatewayDomain == <<"a", ".", "i", "o">>

NoString == <<>>

\* X-Mandate header values.  A decoded mandate carries the outcome of the
\* signature check (viem's verifyMessage) as sigValid, and whether it has a
\* contents member as contents.
MkMandate(type, id, sig, tools, max) ==
  [type |-> type, mandate_id |-> id, sigValid |-> sig, expires_at |-> MaxTime + 1,
   allowlisted_tool_ids |-> tools, max_spend |-> Decimal(max, 1),
   require_user_confirm_for_price_over |-> {}, merchants |-> {GatewayDomain},
   contents |-> type = "IntentMandate"]

NoMandate == MkMandate("absent", "-", FALSE, {}, 0)
MalformedMandate == MkMandate("malformed", "-", FALSE, {}, 0)
MandateA == MkMandate("Mandate", "mA", TRUE, {"paid", "free"}, BudgetUnits)
MandateBadSig == MkMandate("Mandate", "mA", FALSE, {"paid", "free"}, BudgetUnits)
IntentB == MkMandate("IntentMandate", "intent-b", TRUE, {}, BudgetUnits)

\* Headers that decode to a JSON value that is no object: null, and a number.
\* A number has no members: none of the mandate's fields, no signature.
MandateNull == MkMandate("null", "-", FALSE, {}, 0)
MandateNumber == MkMandate("number", "-", FALSE, {}, 0)

\* A signed Kind A mandate to which the member type: "IntentMandate" was
\* added; the signing payload of Kind A does not cover that member.
MandateTypedIntent ==
  [MkMandate("Mandate", "mT", TRUE, {"paid", "free"}, BudgetUnits)
     EXCEPT !.type = "IntentMandate"]

MandateHeaders ==
  {NoMandate, MalformedMandate, MandateA, MandateBadSig, IntentB, MandateTypedIntent}

PaymentHeaders == {"absent", "bad", "good"}

\* What the upstream does with a forwarded request: an HTTP status, or the
\* fetch rejects (connection refused, timeout).
UpstreamResults == {200, 500, -1}

VARIABLES
  now,            \* Date.now(), in ticks
  reqs,           \* per request: inputs and the state the handler hangs on req
  pc,             \* per request: the await point the handler is suspended at
  replayStore,    \* InMemoryReplayStore.store: hash -> deadline of its timer
  timers,         \* pending setTimeout callbacks of the replay store
  dailyTotals,    \* SpendTracker.dailyTotals: mandate_id -> [total, date]
  totals,         \* LifetimeSpendTracker.totals: key -> amount
  receipts,       \* ReceiptStore.receipts
  resp,           \* per request: the HTTP response sent, NoResp before
  verifyCalls,    \* requests for which the facilitator's verify() was called
  settleCalls,    \* requests for which the facilitator's settle() was called
  upstreamCalls,  \* requests forwarded to the upstream
  compiled,       \* route rules admitted by route compilation (url, _skip_ssrf)
  fetched,        \* URLs forwardRequest has called fetch() on
  invocation,     \* a function called on its own: its name and arguments
  returned,       \* what that call returned, NotReturned before it ran
  spendLog        \* history: per mandate and UTC day, the tenths approved

\* The variables outside the request pipeline.
unitVars == <<compiled, fetched, invocation, returned, spendLog>>

vars == <<now, reqs, pc, replayStore, timers, dailyTotals, totals, receipts,
          resp, verifyCalls, settleCalls, upstreamCalls, compiled, fetched,
          invocation, returned, spendLog>>

NoInvocation == [fn |-> "-"]

NotReturned == [fn |-> "-"]

NoResp == [status |-> 0, reason_code |-> "-", receipt |-> FALSE, outcome |-> "-"]

NoHash == [path |-> <<>>, price |-> Decimal(0, 1), idempotencyKey |-> NoKey, timeWindow |-> -1]

NewReq ==
  [path |-> <<>>, idempotencyKey |-> NoKey, mandateHeader |-> NoMandate,
   paymentHeader |-> "absent", arrivedAt |-> -1, after |-> {},
   toolId |-> "unknown", routePrice |-> Decimal(0, 1), requestHash |-> NoHash,
   seen |-> FALSE, isReplay |-> "unset", timestamp |-> -1,
   mandateVerdict |-> "unset", approvedDay |-> -1, x402Verified |-> FALSE,
   paymentResult |-> "unset", upstream |-> 0]

\* ---------------------------------------------------------------- routing
\* A path is the sequence of its segments; the segment ":id" of a template
\* binds any value.
ParamSegment == ":id"

NotFound == [path |-> <<>>, tool_id |-> "unknown", price_usdc |-> Decimal(0, 1)]

templateMatches(template, path) ==
  /\ Len(template) = Len(path)
  /\ \A i \in DOMAIN template : template[i] = ParamSegment \/ template[i] = path[i]

\* The segments before the first parameter of a template.
concretePrefix(template) ==
  IF \A i \in DOMAIN template : template[i] # ParamSegment
    THEN Len(template)
    ELSE (CHOOSE i \in DOMAIN template :
            /\ template[i] = ParamSegment
            /\ \A j \in 1..(i - 1) : template[j] # ParamSegment) - 1

literalSegments(template) ==
  Cardinality({i \in DOMAIN template : template[i] # ParamSegment})

\* Of the rules whose template matches, the longest concrete prefix wins,
\* then the most literal segments.
matchRuleIn(rules, path) ==
  LET matching == {rule \in rules : templateMatches(rule.path, path)}
      longest == {rule \in matching :
                    \A other \in matching :
                      concretePrefix(rule.path) >= concretePrefix(other.path)}
      best == {rule \in longest :
                 \A other \in longest :
                   literalSegments(rule.path) >= literalSegments(other.path)}
  IN IF matching = {} THEN NotFound ELSE CHOOSE rule \in best : TRUE

matchRule(path) == matchRuleIn(routes, path)

\* matchRule(compiled, method, path) with what the route tables of the
\* pipeline leave out: the method of a rule, the order of registration and
\* the values bound to the parameters.  rules is the sequence of the rules
\* in the order registered.
RouteNotFoundError == [threw |-> "RouteNotFoundError"]

\* One rule is preferred to another for a longer concrete prefix, then for
\* more literal segments, then for having been registered first.
preferred(rules, i, j) ==
  LET a == rules[i].path
      b == rules[j].path
  IN \/ concretePrefix(a) > concretePrefix(b)
     \/ /\ concretePrefix(a) = concretePrefix(b)
        /\ \/ literalSegments(a) > literalSegments(b)
           \/ literalSegments(a) = literalSegments(b) /\ i < j

\* Registration order alone decides among the matching rules.
matchRuleCompiled_FirstRegistered(rules, method, path) ==
  LET matching == {i \in DOMAIN rules :
                     /\ rules[i].method = method
                     /\ templateMatches(rules[i].path, path)}
      best == CHOOSE i \in matching : \A j \in matching : i <= j
  IN IF matching = {} THEN RouteNotFoundError
     ELSE [threw |-> "-", rule |-> rules[best],
           params |-> {[name |-> rules[best].path[k], value |-> path[k]] :
                         k \in {n \in DOMAIN path : rules[best].path[n] = ParamSegment}}]

matchRuleCompiled(rules, method, path) ==
  LET matching == {i \in DOMAIN rules :
                     /\ rules[i].method = method
                     /\ templateMatches(rules[i].path, path)}
      best == CHOOSE i \in matching : \A j \in matching \ {i} : preferred(rules, i, j)
  IN IF matching = {} THEN RouteNotFoundError
     ELSE [threw |-> "-", rule |-> rules[best],
           params |-> {[name |-> rules[best].path[k], value |-> path[k]] :
                         k \in {n \in DOMAIN path : rules[best].path[n] = ParamSegment}}]

\* ---------------------------------------------------------------- hashing
\* requestHash: keccak256 of METHOD|path|query|bodyHash|price|key|timeWindow.
\* Requests of the model share method, query and body, so the fingerprint
\* is decided by the remaining parts.
timeWindow(t) == t \div ReplayTtl

requestHash(path, price, key, t) ==
  [path |-> path, price |-> price, idempotencyKey |-> key, timeWindow |-> timeWindow(t)]

keccak256(data) == <<"keccak256(">> \o data \o <<")">>

hashBytes(data) == keccak256(data)

\* ---------------------------------------------------------------- replay
\* InMemoryReplayStore: a Map from hash to the timer of its last insert,
\* kept as a set of entries with one entry per hash.
has(store, hash) == \E e \in store : e.hash = hash

storeSet(store, hash, timer) ==
  {e \in store : e.hash # hash} \cup {[hash |-> hash, timer |-> timer]}

\* A timer callback that leaves the entry in the store.
storeDelete_Keeps(store, hash) == store

storeDelete(store, hash) == {e \in store : e.hash # hash}

\* insert(hash, ttlMs): a new timer is armed and stored under the hash; the
\* timer of an earlier insert of the same hash is left armed.
insertTimer(hash, ttlMs) == [hash |-> hash, fireAt |-> now + ttlMs]

insertStore(store, hash, ttlMs) == storeSet(store, hash, insertTimer(hash, ttlMs))

\* ---------------------------------------------------------------- ledgers
todayUTC == now \div TicksPerDay

hasEntry(mandateId) == \E e \in dailyTotals : e.id = mandateId

entryOf(mandateId) == CHOOSE e \in dailyTotals : e.id = mandateId

\* The date test inverted: an entry of today reads as zero.
getSpent_DateInverted(mandateId) ==
  IF ~hasEntry(mandateId) \/ entryOf(mandateId).date = todayUTC
    THEN DoubleZero
    ELSE entryOf(mandateId).total

getSpent(mandateId) ==
  IF ~hasEntry(mandateId) \/ entryOf(mandateId).date # todayUTC
    THEN DoubleZero
    ELSE entryOf(mandateId).total

\* The date test dropped: a new day adds to the total of the day before.
addSpend_CarriesOver(mandateId, amount) ==
  {e \in dailyTotals : e.id # mandateId} \cup
  { IF ~hasEntry(mandateId)
      THEN [id |-> mandateId, total |-> amount, date |-> todayUTC]
      ELSE [id |-> mandateId, total |-> doubleAdd(entryOf(mandateId).total, amount),
            date |-> todayUTC] }

\* The spend recorded twice.
addSpend_Twice(mandateId, amount) ==
  {e \in dailyTotals : e.id # mandateId} \cup
  { IF ~hasEntry(mandateId) \/ entryOf(mandateId).date # todayUTC
      THEN [id |-> mandateId, total |-> doubleAdd(amount, amount), date |-> todayUTC]
      ELSE [id |-> mandateId,
            total |-> doubleAdd(doubleAdd(entryOf(mandateId).total, amount), amount),
            date |-> todayUTC] }

addSpend(mandateId, amount) ==
  {e \in dailyTotals : e.id # mandateId} \cup
  { IF ~hasEntry(mandateId) \/ entryOf(mandateId).date # todayUTC
      THEN [id |-> mandateId, total |-> amount, date |-> todayUTC]
      ELSE [id |-> mandateId, total |-> doubleAdd(entryOf(mandateId).total, amount),
            date |-> todayUTC] }

lifetimeGetSpent(key) ==
  IF \E e \in totals : e.key = key
    THEN (CHOOSE e \in totals : e.key = key).amount
    ELSE DoubleZero

lifetimeAddSpend(key, amount) ==
  {e \in totals : e.key # key} \cup
  {[key |-> key, amount |-> doubleAdd(lifetimeGetSpent(key), amount)]}

\* ---------------------------------------------------------------- mandates
Verdict(approved, reason) == [approved |-> approved, reason_code |-> reason]

\* The allowlist is checked before the expiry.
verifyMandate_AllowlistFirst(mandate, context) ==
  IF ~mandate.sigValid THEN Verdict(FALSE, "INVALID_SIGNATURE")
  ELSE IF context.tool_id \notin mandate.allowlisted_tool_ids
    THEN Verdict(FALSE, "ENDPOINT_NOT_ALLOWLISTED")
  ELSE IF mandate.expires_at < context.timestamp THEN Verdict(FALSE, "MANDATE_EXPIRED")
  ELSE IF doubleGreater(doubleAdd(getSpent(mandate.mandate_id),
                                   parseFloat(context.price_usdc)),
                         parseFloat(mandate.max_spend))
    THEN Verdict(FALSE, "MANDATE_BUDGET_EXCEEDED")
  ELSE IF \E threshold \in mandate.require_user_confirm_for_price_over :
            doubleGreater(parseFloat(context.price_usdc), parseFloat(threshold))
    THEN Verdict(FALSE, "MANDATE_CONFIRM_REQUIRED")
  ELSE Verdict(TRUE, "OK")

\* verifyMandate (Kind A): the checks in the order of the code; the spend
\* is recorded by the caller of this operator when the verdict approves.
verifyMandate(mandate, context) ==
  IF ~mandate.sigValid THEN Verdict(FALSE, "INVALID_SIGNATURE")
  ELSE IF mandate.expires_at < context.timestamp THEN Verdict(FALSE, "MANDATE_EXPIRED")
  ELSE IF context.tool_id \notin mandate.allowlisted_tool_ids
    THEN Verdict(FALSE, "ENDPOINT_NOT_ALLOWLISTED")
  ELSE IF doubleGreater(doubleAdd(getSpent(mandate.mandate_id),
                                   parseFloat(context.price_usdc)),
                         parseFloat(mandate.max_spend))
    THEN Verdict(FALSE, "MANDATE_BUDGET_EXCEEDED")
  ELSE IF \E threshold \in mandate.require_user_confirm_for_price_over :
            doubleGreater(parseFloat(context.price_usdc), parseFloat(threshold))
    THEN Verdict(FALSE, "MANDATE_CONFIRM_REQUIRED")
  ELSE Verdict(TRUE, "OK")

\* verifyIntentMandate (Kind B).  budget.amount is the number JSON.parse read
\* from the decimal literal of the header.
verifyIntentMandate(mandate, context) ==
  IF ~mandate.sigValid THEN Verdict(FALSE, "INVALID_SIGNATURE")
  ELSE IF mandate.expires_at < context.timestamp THEN Verdict(FALSE, "MANDATE_EXPIRED")
  ELSE IF ~\E merchant \in mandate.merchants :
             toLowerCase(merchant) = toLowerCase(context.gateway_domain)
    THEN Verdict(FALSE, "MERCHANT_NOT_MATCHED")
  ELSE IF doubleGreater(doubleAdd(lifetimeGetSpent(mandate.mandate_id),
                                   parseFloat(context.price_usdc)),
                         parseFloat(mandate.max_spend))
    THEN Verdict(FALSE, "INTENT_BUDGET_EXCEEDED")
  ELSE Verdict(TRUE, "OK")

isIntentMandate(obj) == obj.type = "IntentMandate" /\ obj.contents

\* resolveGatewayDomain: the configured domain when one is set, else the
\* Host header without its port, else "localhost".
resolveGatewayDomain(host, gatewayDomain) ==
  IF gatewayDomain # NoString THEN gatewayDomain
  ELSE stripPort(IF host # NoString THEN host ELSE STR_localhost)

\* ---------------------------------------------------------------- receipts
\* A nullable member of a receipt is the empty sequence when null.
Null == <<>>

\* Math.round(performance.now() - startTime): a number, never null.  The
\* clock of the model counts far longer units than milliseconds, so that
\* every request is measured as taking 0 ms.
latencyMs == <<0>>

\* hashBytes(JSON.stringify(proxyRes.data)); the body of an upstream response
\* is decided by its status.
responseHash(result) == hashBytes(<<result>>)

\* The transaction hash of the settlement, null when settle() was not called.
paymentTxHash(r, settled) == IF settled THEN <<"0x", r>> ELSE Null

Receipt(r, tool, price, mandateVerdict, reason, outcome, txHash, hash, latency) ==
  [request_id |-> r, tool_id |-> tool, price_usdc |-> price,
   mandate_verdict |-> mandateVerdict, reason_code |-> reason, outcome |-> outcome,
   payment_tx_hash |-> txHash, response_hash |-> hash, latency_ms |-> latency]

\* A response: its status, and the reason_code and outcome of the receipt it
\* carries (in the body on failure, in the receipt header on success), "-"
\* when it carries none.
Response(status, reason, outcome) ==
  [status |-> status, reason_code |-> reason, receipt |-> outcome # "-",
   outcome |-> outcome]

Init ==
  /\ now = 0
  /\ reqs = [r \in Reqs |-> NewReq]
  /\ pc = [r \in Reqs |-> "new"]
  /\ replayStore = {}
  /\ timers = {}
  /\ dailyTotals = {}
  /\ totals = {}
  /\ receipts = <<>>
  /\ resp = [r \in Reqs |-> NoResp]
  /\ verifyCalls = {}
  /\ settleCalls = {}
  /\ upstreamCalls = {}
  /\ compiled = {}
  /\ fetched = {}
  /\ invocation = NoInvocation
  /\ returned = NotReturned
  /\ spendLog = [Mandate |-> {}, IntentMandate |-> {}]

\* ---------------------------------------------------------------- pipeline
Finish(r, response) ==
  /\ resp' = [resp EXCEPT ![r] = response]
  /\ pc' = [pc EXCEPT ![r] = "done"]

\* Requests whose idempotency stage had already ended when a request arrives.
PastIdempotency == {q \in Reqs : reqs[q].isReplay # "unset"}

\* A request reaches the /api/* handler.  Route matching, and on a match the
\* synchronous part of the idempotency middleware up to the call of
\* store.has() inside checkReplay.
Arrive(r, path, key, mandateHeader, paymentHeader) ==
  /\ pc[r] = "new"
  /\ \A q \in Reqs : q < r => pc[q] # "new"
  /\ LET rule == matchRule(path)
         in0 == [reqs[r] EXCEPT !.path = path, !.idempotencyKey = key,
                                !.mandateHeader = mandateHeader,
                                !.paymentHeader = paymentHeader,
                                !.arrivedAt = now, !.after = PastIdempotency]
     IN IF rule = NotFound
          THEN /\ reqs' = [reqs EXCEPT ![r] = in0]
               /\ receipts' = Append(receipts,
                    Receipt(r, "unknown", Decimal(0, 2), "SKIPPED", "ROUTE_NOT_FOUND", "DENIED",
                            Null, Null, Null))
               /\ Finish(r, Response(404, "ROUTE_NOT_FOUND", "DENIED"))
          ELSE LET in1 == [in0 EXCEPT !.toolId = rule.tool_id,
                                      !.routePrice = rule.price_usdc]
               IN /\ receipts' = receipts
                  /\ resp' = resp
                  /\ IF key = NoKey
                       THEN /\ reqs' = [reqs EXCEPT ![r] = in1]
                            /\ pc' = [pc EXCEPT ![r] = "mandate"]
                       ELSE LET hash == requestHash(path, rule.price_usdc, key, now)
                            IN /\ reqs' = [reqs EXCEPT ![r] =
                                    [in1 EXCEPT !.requestHash = hash,
                                                !.seen = has(replayStore, hash)]]
                               /\ pc' = [pc EXCEPT ![r] = "checkReplay"]
  /\ UNCHANGED <<now, replayStore, timers, dailyTotals, totals,
                 verifyCalls, settleCalls, upstreamCalls>>
  /\ UNCHANGED unitVars

\* A replay hit that is answered 409 and then falls through to the mandate
\* stage instead of ending the request.
CheckReplayResume_FallsThrough(r) ==
  /\ pc[r] = "checkReplay"
  /\ reqs' = [reqs EXCEPT ![r].isReplay = IF reqs[r].seen THEN "true" ELSE "false"]
  /\ timers' = IF reqs[r].seen THEN timers
               ELSE timers \cup {insertTimer(reqs[r].requestHash, ReplayTtl)}
  /\ replayStore' = IF reqs[r].seen THEN replayStore
                    ELSE insertStore(replayStore, reqs[r].requestHash, ReplayTtl)
  /\ pc' = [pc EXCEPT ![r] = "mandate"]
  /\ resp' = resp
  /\ UNCHANGED <<now, dailyTotals, totals, receipts,
                 verifyCalls, settleCalls, upstreamCalls>>
  /\ UNCHANGED unitVars

\* checkReplay resumes after `await store.has(hash)`: a hit is answered 409
\* by the middleware (next() is not called), a miss inserts the hash.
CheckReplayResume(r) ==
  /\ pc[r] = "checkReplay"
  /\ IF reqs[r].seen
       THEN /\ reqs' = [reqs EXCEPT ![r].isReplay = "true"]
            /\ Finish(r, Response(409, "REPLAY_DETECTED", "DENIED"))
            /\ UNCHANGED <<replayStore, timers>>
       ELSE /\ reqs' = [reqs EXCEPT ![r].isReplay = "false"]
            /\ timers' = timers \cup {insertTimer(reqs[r].requestHash, ReplayTtl)}
            /\ replayStore' = insertStore(replayStore, reqs[r].requestHash, ReplayTtl)
            /\ pc' = [pc EXCEPT ![r] = "mandate"]
            /\ resp' = resp
  /\ UNCHANGED <<now, dailyTotals, totals, receipts,
                 verifyCalls, settleCalls, upstreamCalls>>
  /\ UNCHANGED unitVars

\* An undecodable header that is treated as an absent one.
MandateStart_MalformedContinues(r) ==
  /\ pc[r] = "mandate"
  /\ LET header == reqs[r].mandateHeader
     IN IF header.type \in {"absent", "malformed"}
          THEN /\ reqs' = [reqs EXCEPT ![r].mandateVerdict = "SKIPPED"]
               /\ pc' = [pc EXCEPT ![r] = "payment"]
               /\ resp' = resp
          ELSE /\ reqs' = [reqs EXCEPT ![r].timestamp = now]
               /\ pc' = [pc EXCEPT ![r] = "verifyMessage"]
               /\ resp' = resp
  /\ UNCHANGED <<now, replayStore, timers, dailyTotals, totals, receipts,
                 verifyCalls, settleCalls, upstreamCalls>>
  /\ UNCHANGED unitVars

\* The mandate middleware up to `await verifyMessage(...)`.
MandateStart(r) ==
  /\ pc[r] = "mandate"
  /\ LET header == reqs[r].mandateHeader
     IN IF header.type = "absent"
          THEN /\ reqs' = [reqs EXCEPT ![r].mandateVerdict = "SKIPPED"]
               /\ pc' = [pc EXCEPT ![r] = "payment"]
               /\ resp' = resp
          ELSE IF header.type = "malformed"
            THEN /\ reqs' = reqs
                 /\ Finish(r, Response(400, "-", "-"))
          ELSE IF header.type = "null"
            \* isIntentMandate reads obj.type of null: the TypeError rejects
            \* the middleware's promise, next() is not called, nothing is
            \* sent, and the handler's `await new Promise` never settles.
            THEN /\ reqs' = reqs
                 /\ pc' = [pc EXCEPT ![r] = "rejected"]
                 /\ resp' = resp
            ELSE /\ reqs' = [reqs EXCEPT ![r].timestamp = now]
                 /\ pc' = [pc EXCEPT ![r] = "verifyMessage"]
                 /\ resp' = resp
  /\ UNCHANGED <<now, replayStore, timers, dailyTotals, totals, receipts,
                 verifyCalls, settleCalls, upstreamCalls>>
  /\ UNCHANGED unitVars

\* A denial that is answered 403 and then calls next() all the same.
MandateVerify_DeniedFallsThrough(r) ==
  /\ pc[r] = "verifyMessage"
  /\ LET mandate == reqs[r].mandateHeader
         context == [tool_id |-> reqs[r].toolId, price_usdc |-> reqs[r].routePrice,
                     timestamp |-> reqs[r].timestamp,
                     gateway_domain |-> resolveGatewayDomain(NoString, GatewayDomain)]
         verdict == IF isIntentMandate(mandate)
                      THEN verifyIntentMandate(mandate, context)
                      ELSE verifyMandate(mandate, context)
     IN /\ IF verdict.approved
             THEN IF isIntentMandate(mandate)
                    THEN /\ totals' = lifetimeAddSpend(mandate.mandate_id,
                                                         parseFloat(context.price_usdc))
                         /\ dailyTotals' = dailyTotals
                    ELSE /\ dailyTotals' = addSpend(mandate.mandate_id,
                                                         parseFloat(context.price_usdc))
                         /\ totals' = totals
             ELSE UNCHANGED <<dailyTotals, totals>>
        /\ reqs' = [reqs EXCEPT ![r].mandateVerdict =
                                  IF verdict.approved THEN "APPROVED" ELSE "DENIED",
                                ![r].approvedDay =
                                  IF verdict.approved THEN todayUTC ELSE @]
        /\ pc' = [pc EXCEPT ![r] = "payment"]
        /\ resp' = IF verdict.approved THEN resp
                   ELSE [resp EXCEPT ![r] = Response(403, verdict.reason_code, "DENIED")]
  /\ UNCHANGED <<now, replayStore, timers, receipts,
                 verifyCalls, settleCalls, upstreamCalls>>
  /\ UNCHANGED unitVars

\* verifyMandate / verifyIntentMandate resume after the signature check: the
\* remaining checks and the recording of the spend run without suspension.
MandateVerify(r) ==
  /\ pc[r] = "verifyMessage"
  /\ LET mandate == reqs[r].mandateHeader
         context == [tool_id |-> reqs[r].toolId, price_usdc |-> reqs[r].routePrice,
                     timestamp |-> reqs[r].timestamp,
                     gateway_domain |-> resolveGatewayDomain(NoString, GatewayDomain)]
         verdict == IF isIntentMandate(mandate)
                      THEN verifyIntentMandate(mandate, context)
                      ELSE verifyMandate(mandate, context)
     IN /\ IF verdict.approved
             THEN IF isIntentMandate(mandate)
                    THEN /\ totals' = lifetimeAddSpend(mandate.mandate_id,
                                                         parseFloat(context.price_usdc))
                         /\ dailyTotals' = dailyTotals
                    ELSE /\ dailyTotals' = addSpend(mandate.mandate_id,
                                                         parseFloat(context.price_usdc))
                         /\ totals' = totals
             ELSE UNCHANGED <<dailyTotals, totals>>
        /\ IF verdict.approved
             THEN /\ reqs' = [reqs EXCEPT ![r].mandateVerdict = "APPROVED",
                                          ![r].approvedDay = todayUTC]
                  /\ pc' = [pc EXCEPT ![r] = "payment"]
                  /\ resp' = resp
             ELSE /\ reqs' = [reqs EXCEPT ![r].mandateVerdict = "DENIED"]
                  /\ Finish(r, Response(403, verdict.reason_code, "DENIED"))
  /\ UNCHANGED <<now, replayStore, timers, receipts,
                 verifyCalls, settleCalls, upstreamCalls>>
  /\ UNCHANGED unitVars

\* ---------------------------------------------------------------- payment
\* rule.path.replace(/:[\w]+/g, "*"): each parameter of the template becomes
\* the wildcard of the x402 route patterns.
x402Path(path) == [i \in DOMAIN path |-> IF path[i] = ParamSegment THEN "*" ELSE path[i]]

\* buildRoutesConfig: the x402 route patterns of the rules with a price above
\* zero.  Requests of the model share one method.
buildRoutesConfig(rules) ==
  {x402Path(rule.path) :
     rule \in {r \in rules : doubleGreater(parseFloat(r.price_usdc), DoubleZero)}}

routesConfig == buildRoutesConfig(routes)

\* httpServer.requiresPayment: the request matches one of the x402 route
\* patterns, whose wildcard stands for the parameter it replaced.
patternMatches(pattern, path) ==
  /\ Len(pattern) = Len(path)
  /\ \A i \in DOMAIN pattern : pattern[i] = "*" \/ pattern[i] = path[i]

requiresPaymentIn(config, path) == \E pattern \in config : patternMatches(pattern, path)

requiresPayment(path) == requiresPaymentIn(routesConfig, path)

\* httpServer.processHTTPRequest: without a payment header the request is
\* challenged; with one the facilitator's verify() decides.  The call may
\* also throw (facilitator unreachable, gate not initialised).
PaymentResults == {"payment-error", "payment-verified", "threw"}

processHTTPRequest(paymentHeader, threw) ==
  IF threw THEN "threw"
  ELSE IF paymentHeader = "good" THEN "payment-verified"
  ELSE "payment-error"

\* A throw of processHTTPRequest answered with the challenge instead of next().
PaymentStep_ThrowBlocks(r, threw) ==
  /\ pc[r] = "payment"
  /\ IF routesConfig = {} \/ ~requiresPayment(reqs[r].path)
       THEN /\ ~threw
            /\ reqs' = [reqs EXCEPT ![r].paymentResult = "no-payment-required"]
            /\ pc' = [pc EXCEPT ![r] = "proxy"]
            /\ UNCHANGED <<resp, verifyCalls>>
       ELSE LET result == processHTTPRequest(reqs[r].paymentHeader, threw)
            IN /\ verifyCalls' = IF ~threw /\ reqs[r].paymentHeader # "absent"
                                   THEN verifyCalls \cup {r} ELSE verifyCalls
               /\ reqs' = [reqs EXCEPT ![r].paymentResult = result,
                                       ![r].x402Verified = (result = "payment-verified")]
               /\ IF result \in {"payment-error", "threw"}
                    THEN Finish(r, Response(402, "-", "-"))
                    ELSE /\ pc' = [pc EXCEPT ![r] = "proxy"]
                         /\ resp' = resp
  /\ UNCHANGED <<now, replayStore, timers, dailyTotals, totals, receipts,
                 settleCalls, upstreamCalls>>
  /\ UNCHANGED unitVars

\* The payment middleware (createPaymentSystem.middleware).
PaymentStep(r, threw) ==
  /\ pc[r] = "payment"
  /\ IF routesConfig = {} \/ ~requiresPayment(reqs[r].path)
       THEN /\ ~threw
            /\ reqs' = [reqs EXCEPT ![r].paymentResult = "no-payment-required"]
            /\ pc' = [pc EXCEPT ![r] = "proxy"]
            /\ UNCHANGED <<resp, verifyCalls>>
       ELSE LET result == processHTTPRequest(reqs[r].paymentHeader, threw)
            IN /\ verifyCalls' = IF ~threw /\ reqs[r].paymentHeader # "absent"
                                   THEN verifyCalls \cup {r} ELSE verifyCalls
               /\ reqs' = [reqs EXCEPT ![r].paymentResult = result,
                                       ![r].x402Verified = (result = "payment-verified")]
               /\ IF result = "payment-error"
                    THEN Finish(r, Response(402, "-", "-"))
                    ELSE /\ pc' = [pc EXCEPT ![r] = "proxy"]
                         /\ resp' = resp
  /\ UNCHANGED <<now, replayStore, timers, dailyTotals, totals, receipts,
                 settleCalls, upstreamCalls>>
  /\ UNCHANGED unitVars

\* settle without its x402Verified guard.
settle_Unguarded(req) == TRUE

\* createPaymentSystem.settle: only a verified request reaches the facilitator.
settle(req) == req.x402Verified

\* The orchestrator settles on a successful upstream response.
settleOnUpstream(status) == status >= 200 /\ status <= 299

\* ---------------------------------------------------------------- proxy
\* The receipt of a proxied request written without the response hash.
ProxyStep_NoResponseHash(r, result) ==
  /\ pc[r] = "proxy"
  /\ upstreamCalls' = upstreamCalls \cup {r}
  /\ reqs' = [reqs EXCEPT ![r].upstream = result]
  /\ LET verdict == IF reqs[r].mandateVerdict = "unset" THEN "SKIPPED"
                    ELSE reqs[r].mandateVerdict
     IN IF result = -1
          THEN /\ receipts' = Append(receipts,
                    Receipt(r, reqs[r].toolId, Decimal(0, 2), verdict,
                            "UPSTREAM_ERROR_NO_CHARGE", "ERROR", Null, Null, latencyMs))
               /\ Finish(r, Response(502, "UPSTREAM_ERROR_NO_CHARGE", "ERROR"))
               /\ settleCalls' = settleCalls
          ELSE /\ settleCalls' = IF settleOnUpstream(result) /\ settle(reqs[r])
                                   THEN settleCalls \cup {r} ELSE settleCalls
               /\ receipts' = Append(receipts,
                    Receipt(r, reqs[r].toolId, reqs[r].routePrice, verdict, "OK", "SUCCESS",
                            paymentTxHash(r, r \in settleCalls'), Null, latencyMs))
               /\ Finish(r, Response(result, "OK", "SUCCESS"))
  /\ UNCHANGED <<now, replayStore, timers, dailyTotals, totals, verifyCalls>>
  /\ UNCHANGED unitVars

\* forwardRequest returns the upstream's status whatever it is, or throws.
ProxyStep(r, result) ==
  /\ pc[r] = "proxy"
  /\ upstreamCalls' = upstreamCalls \cup {r}
  /\ reqs' = [reqs EXCEPT ![r].upstream = result]
  /\ LET verdict == IF reqs[r].mandateVerdict = "unset" THEN "SKIPPED"
                    ELSE reqs[r].mandateVerdict
     IN IF result = -1
          THEN /\ receipts' = Append(receipts,
                    Receipt(r, reqs[r].toolId, Decimal(0, 2), verdict,
                            "UPSTREAM_ERROR_NO_CHARGE", "ERROR", Null, Null, latencyMs))
               /\ Finish(r, Response(502, "UPSTREAM_ERROR_NO_CHARGE", "ERROR"))
               /\ settleCalls' = settleCalls
          ELSE /\ settleCalls' = IF settleOnUpstream(result) /\ settle(reqs[r])
                                   THEN settleCalls \cup {r} ELSE settleCalls
               /\ receipts' = Append(receipts,
                    Receipt(r, reqs[r].toolId, reqs[r].routePrice, verdict, "OK", "SUCCESS",
                            paymentTxHash(r, r \in settleCalls'), responseHash(result),
                            latencyMs))
               /\ Finish(r, Response(result, "OK", "SUCCESS"))
  /\ UNCHANGED <<now, replayStore, timers, dailyTotals, totals, verifyCalls>>
  /\ UNCHANGED unitVars

\* ---------------------------------------------------------------- time
\* A continuation that waits only for a promise already resolved runs before
\* any timer callback and before the clock can move by a tick.
MicrotaskPending == \E r \in Reqs : pc[r] \in {"checkReplay", "mandate"}

\* The setTimeout callback of insert(): this.store.delete(hash).
TimerFire(t) ==
  /\ t \in timers
  /\ t.fireAt <= now
  /\ ~MicrotaskPending
  /\ timers' = timers \ {t}
  /\ replayStore' = storeDelete(replayStore, t.hash)
  /\ UNCHANGED <<now, reqs, pc, dailyTotals, totals, receipts, resp,
                 verifyCalls, settleCalls, upstreamCalls>>
  /\ UNCHANGED unitVars

Tick ==
  /\ now < MaxTime
  /\ ~MicrotaskPending
  /\ \A t \in timers : t.fireAt > now
  /\ now' = now + 1
  /\ UNCHANGED <<reqs, pc, replayStore, timers, dailyTotals, totals, receipts,
                 resp, verifyCalls, settleCalls, upstreamCalls>>
  /\ UNCHANGED unitVars

\* The handler steps of a request past its arrival.
Step(r) ==
  \/ CheckReplayResume(r)
  \/ MandateStart(r)
  \/ MandateVerify(r)
  \/ \E threw \in BOOLEAN : PaymentStep(r, threw)
  \/ \E result \in UpstreamResults : ProxyStep(r, result)

\* The pipeline at one instant: every combination of request inputs, the
\* handlers of the requests interleaved at their await points.
Next ==
  \/ \E r \in Reqs, path \in Paths, key \in IdempotencyKeys,
        mh \in MandateHeaders, ph \in PaymentHeaders : Arrive(r, path, key, mh, ph)
  \/ \E r \in Reqs : Step(r)

Spec == Init /\ [][Next]_vars

\* The pipeline with every pending continuation eventually run: the event
\* loop resumes each handler suspended at an await, and the upstream fetch
\* settles (it answers, fails or is aborted by its timeout).  The mandate
\* headers include the JSON values that are no objects.
LivePaths == {<<"api", "paid">>, <<"api", "none">>}
LiveMandates == {NoMandate, MalformedMandate, MandateA, MandateNull, MandateNumber}
LivePayments == {"absent", "good"}

NextLive ==
  \/ \E r \in Reqs, path \in LivePaths, key \in IdempotencyKeys,
        mh \in LiveMandates, ph \in LivePayments : Arrive(r, path, key, mh, ph)
  \/ \E r \in Reqs : Step(r)

\* A handler suspended at an await: Step(r) is enabled exactly then, and
\* every step of Step(r) moves pc[r] on.
Pending(r) == pc[r] \in {"checkReplay", "mandate", "verifyMessage", "payment", "proxy"}

\* The resumption of a suspended handler, by its position alone.  Its
\* enabling condition is Pending(r), that of Step(r), and a handler passes
\* each await once, so weak fairness of Resumed(r) is weak fairness of
\* Step(r): no handler stays suspended for ever.
Resumed(r) ==
  /\ Pending(r)
  /\ \E p \in {"mandate", "verifyMessage", "payment", "proxy", "rejected", "done"} :
       p # pc[r] /\ pc' = [pc EXCEPT ![r] = p]
  /\ UNCHANGED <<now, reqs, replayStore, timers, dailyTotals, totals, receipts,
                 resp, verifyCalls, settleCalls, upstreamCalls>>
  /\ UNCHANGED unitVars

SpecLive == Init /\ [][NextLive]_vars /\ \A r \in Reqs : WF_vars(Resumed(r))

\* The pipeline over time: the clock, the replay timers and the UTC date
\* move between and during requests that carry a mandate and pay.
TimedPaths == {<<"api", "paid">>, <<"api", "none">>}
TimedMandates == {NoMandate, MandateA, MandateBadSig, IntentB}
TimedPayments == {"absent", "good"}

NextTimed ==
  \/ \E r \in Reqs, path \in TimedPaths, key \in IdempotencyKeys,
        mh \in TimedMandates, ph \in TimedPayments : Arrive(r, path, key, mh, ph)
  \/ \E r \in Reqs : Step(r)
  \/ \E t \in timers : TimerFire(t)
  \/ Tick

SpecTimed == Init /\ [][NextTimed]_vars

\* The replay store on its own: insert() called directly with any hash and
\* TTL at any time, timers firing when due.
ReplayHashes ==
  { requestHash(<<"api", "paid">>, Decimal(PaidPrice, 1), "K", 0),
    requestHash(<<"api", "free">>, Decimal(0, 1), "K", 0) }

ReplayTtls == {ReplayTtl - 1, ReplayTtl}

StoreInsert(hash, ttlMs) ==
  /\ timers' = timers \cup {insertTimer(hash, ttlMs)}
  /\ replayStore' = insertStore(replayStore, hash, ttlMs)
  /\ UNCHANGED <<now, reqs, pc, dailyTotals, totals, receipts, resp,
                 verifyCalls, settleCalls, upstreamCalls>>
  /\ UNCHANGED unitVars

NextReplay ==
  \/ \E hash \in ReplayHashes, ttlMs \in ReplayTtls : StoreInsert(hash, ttlMs)
  \/ \E t \in timers : TimerFire(t)
  \/ Tick

SpecReplay == Init /\ [][NextReplay]_vars

\* ---------------------------------------------------------------- hash.ts
\* keccak256 is taken to be free of collisions: the digest of a string is
\* the string under a tag.
\* canonicalString(parts): parts.query is a sequence of key/value pairs with
\* distinct keys, empty when the caller passes no query.
canonicalString(parts) ==
  LET keys == sort([i \in 1..Len(parts.query) |-> parts.query[i].k])
      valueOf(key) == parts.query[CHOOSE i \in 1..Len(parts.query) :
                                    parts.query[i].k = key].v
      sortedQuery ==
        join([i \in 1..Len(keys) |->
                toLowerCase(keys[i]) \o <<"=">> \o encodeURIComponent(valueOf(keys[i]))],
             "&")
  IN join(<<toUpperCase(parts.method), parts.path, sortedQuery, parts.bodyHash,
            parts.price, parts.idempotencyKey, parts.timeWindow>>, "|")

requestHashOfParts(parts) == keccak256(canonicalString(parts))

\* The fingerprint the idempotency middleware computes for a request at
\* time t: no query is passed to requestHash.
idempotencyFingerprint(req, t) ==
  requestHashOfParts(
    [method |-> req.method, path |-> req.path, query |-> <<>>,
     bodyHash |-> hashBytes(req.body), price |-> req.routePrice,
     idempotencyKey |-> req.idempotencyKey,
     timeWindow |-> decimalString(t \div ReplayTtl)])

\* The requests fingerprinted: two values of each part, the body being the
\* text JSON.stringify made of it.
HashRequests ==
  [method : {<<"G", "E", "T">>, <<"P", "O", "S", "T">>},
   path : {<<"/", "a", "p", "i", "/", "a">>, <<"/", "a", "p", "i", "/", "b">>},
   query : {<<>>, <<[k |-> <<"a">>, v |-> <<"1">>]>>, <<[k |-> <<"a">>, v |-> <<"2">>]>>},
   body : {<<>>, <<"{", "a", "}">>},
   routePrice : {<<"0", ".", "0", "1">>, <<"0", ".", "0", "2">>},
   idempotencyKey : {<<"K">>, <<"L">>}]

\* Two requests pass the idempotency middleware in the same time window.
CallIdempotencyFingerprint(a, b) ==
  /\ invocation = NoInvocation
  /\ invocation' = [fn |-> "idempotencyFingerprint", a |-> a, b |-> b]
  /\ returned' = [fn |-> "idempotencyFingerprint",
                  a |-> idempotencyFingerprint(a, now),
                  b |-> idempotencyFingerprint(b, now)]
  /\ UNCHANGED <<now, reqs, pc, replayStore, timers, dailyTotals, totals, receipts,
                 resp, verifyCalls, settleCalls, upstreamCalls, compiled, fetched,
                 spendLog>>

NextHash == \E a, b \in HashRequests : CallIdempotencyFingerprint(a, b)

SpecHash == Init /\ [][NextHash]_vars

\* canonicalString and requestHash called on their own with two queries, the
\* other parts being those of one request.  A query is an object: a sequence
\* of key/value pairs in insertion order, with distinct keys.
QueryKeys == {<<"a">>, <<"b">>, <<"B">>}

QueryValues == {<<"1">>, <<"2">>}

MaxQueryKeys == 2

Queries ==
  {query \in UNION {[1..n -> [k : QueryKeys, v : QueryValues]] : n \in 0..MaxQueryKeys} :
     \A i, j \in DOMAIN query : query[i].k = query[j].k => i = j}

PartsWithQuery(query) ==
  [method |-> <<"g", "e", "t">>, path |-> <<"/", "q">>, query |-> query,
   bodyHash |-> hashBytes(<<>>), price |-> <<"0", ".", "0", "1">>,
   idempotencyKey |-> <<"K">>, timeWindow |-> <<"1">>]

CallCanonicalString(a, b) ==
  /\ invocation = NoInvocation
  /\ invocation' = [fn |-> "canonicalString", a |-> a, b |-> b]
  /\ returned' = [fn |-> "canonicalString",
                  a |-> canonicalString(PartsWithQuery(a)),
                  b |-> canonicalString(PartsWithQuery(b)),
                  hashA |-> requestHashOfParts(PartsWithQuery(a)),
                  hashB |-> requestHashOfParts(PartsWithQuery(b))]
  /\ UNCHANGED <<now, reqs, pc, replayStore, timers, dailyTotals, totals, receipts,
                 resp, verifyCalls, settleCalls, upstreamCalls, compiled, fetched,
                 spendLog>>

NextCanonical == \E a, b \in Queries : CallCanonicalString(a, b)

SpecCanonical == Init /\ [][NextCanonical]_vars

\* ---------------------------------------------------------------- URLs
\* A backend URL by the host it names: an IPv4 address, an IPv6 address
\* hi:0:0:0:0:0:0:lo, a domain name, or text that is no URL at all.
Host(kind, octets, hi, lo, name) ==
  [kind |-> kind, octets |-> octets, hi |-> hi, lo |-> lo, name |-> name]

HostV4(a, b, c, d) == Host("v4", <<a, b, c, d>>, 0, 0, <<>>)

HostV6(hi, lo) == Host("v6", <<>>, hi, lo, <<>>)

HostName(name) == Host("name", <<>>, 0, 0, name)

NotAUrl == Host("unparsable", <<>>, 0, 0, <<>>)

\* new URL(url).hostname: dotted decimal for IPv4, the compressed lower-case
\* form in square brackets for IPv6, the name itself for a domain.
hostname(host) ==
  IF host.kind = "v4"
    THEN decimalString(host.octets[1]) \o <<".">> \o decimalString(host.octets[2])
         \o <<".">> \o decimalString(host.octets[3]) \o <<".">>
         \o decimalString(host.octets[4])
  ELSE IF host.kind = "v6"
    THEN <<"[">> \o (IF host.hi = 0 THEN <<>> ELSE hexString(host.hi)) \o <<":", ":">>
         \o (IF host.lo = 0 THEN <<>> ELSE hexString(host.lo)) \o <<"]">>
  ELSE host.name

\* ---------------------------------------------------------------- SSRF
\* The string constants of ssrf.ts.
PFX127 == <<"1", "2", "7", ".">>

PFX10 == <<"1", "0", ".">>

PFX0 == <<"0", ".">>

PFX169254 == <<"1", "6", "9", ".", "2", "5", "4", ".">>


STR_0000 == <<"0", ".", "0", ".", "0", ".", "0">>

STR_v6loopback == <<":", ":", "1">>

STR_v6any == <<"[", ":", ":", "]">>

STR_example == <<"a", "p", "i", ".", "e", "x", "a", "m", "p", "l", "e", ".", "c", "o", "m">>

PRIVATE_RANGES_V4 == {PFX127, PFX10, PFX0, PFX169254}

\* (ipNum & mask) === (baseNum & mask): the 32-bit words, kept as their high
\* and low 16-bit halves, agree on their leading maskBits bits.
isInRange(ip, base, maskBits) ==
  LET parts == [i \in 1..Len(split(ip, ".")) |-> Number(split(ip, ".")[i])]
      high(p) == p[1] * 256 + p[2]
      low(p) == p[3] * 256 + p[4]
  IN IF Len(parts) # 4 \/ \E i \in 1..Len(parts) : parts[i] = NaN \/ parts[i] > 255
       THEN FALSE
       ELSE IF maskBits <= 16
         THEN high(parts) \div 2 ^ (16 - maskBits) = high(base) \div 2 ^ (16 - maskBits)
         ELSE /\ high(parts) = high(base)
              /\ low(parts) \div 2 ^ (32 - maskBits) = low(base) \div 2 ^ (32 - maskBits)

isPrivateOrReserved(hostnameStr) ==
  LET unbracketed ==
        LET h1 == IF Len(hostnameStr) > 0 /\ hostnameStr[1] = "["
                    THEN SubSeq(hostnameStr, 2, Len(hostnameStr)) ELSE hostnameStr
        IN IF Len(h1) > 0 /\ h1[Len(h1)] = "]" THEN SubSeq(h1, 1, Len(h1) - 1) ELSE h1
  IN \/ hostnameStr = STR_localhost \/ hostnameStr = STR_0000
     \/ hostnameStr = STR_v6loopback \/ hostnameStr = STR_v6any
     \/ startsWith(unbracketed, <<"f", "c">>) \/ startsWith(unbracketed, <<"f", "d">>)
     \/ startsWith(unbracketed, <<"f", "e", "8", "0">>)
     \/ \E prefix \in PRIVATE_RANGES_V4 : startsWith(hostnameStr, prefix)
     \/ isInRange(hostnameStr, <<172, 16, 0, 0>>, 12)
     \/ isInRange(hostnameStr, <<192, 168, 0, 0>>, 16)

\* assertNotSSRF(url): TRUE when it throws SSRFError.
assertNotSSRF(url) == url.kind = "unparsable" \/ isPrivateOrReserved(hostname(url))

\* The backend URLs tried: IPv4 addresses around the edges of the private
\* ranges, IPv6 addresses around fc00::/7 and fe80::/10, two names, and text
\* that does not parse.
OctetsA == {0, 8, 10, 127, 169, 172, 192}
OctetsB == {0, 15, 16, 31, 32, 168, 254}
OctetsD == {0, 1}
GroupsHi == {0, 8193, 64512, 65023, 65152, 65168, 65215, 65216}
GroupsLo == {0, 1}

BackendUrls ==
  {HostV4(a, b, 0, d) : a \in OctetsA, b \in OctetsB, d \in OctetsD}
  \cup {HostV6(hi, lo) : hi \in GroupsHi, lo \in GroupsLo}
  \cup {HostName(STR_localhost), HostName(STR_example), NotAUrl}

\* assertNotSSRF called on its own.
CallAssertNotSSRF(url) ==
  /\ invocation' = [fn |-> "assertNotSSRF", url |-> url]
  /\ returned' = [fn |-> "assertNotSSRF", threw |-> assertNotSSRF(url)]
  /\ UNCHANGED <<now, reqs, pc, replayStore, timers, dailyTotals, totals, receipts,
                 resp, verifyCalls, settleCalls, upstreamCalls, compiled, fetched,
                 spendLog>>

NextSsrf == \E url \in BackendUrls : CallAssertNotSSRF(url)

SpecSsrf == Init /\ [][NextSsrf]_vars

\* isPrivateOrReserved called on its own with a host name: the dotted quads
\* of the backend URLs, and domain names that begin like an address of a
\* private range.
DomainNames ==
  { STR_localhost, STR_example, <<"f", "c", ".", "i", "o">>, <<"f", "d", ".", "i", "o">>,
    <<"f", "e", "8", "0", ".", "i", "o">>, <<"1", "0", ".", "i", "o">> }

HostsTried ==
  {host \in BackendUrls : host.kind = "v4"} \cup {HostName(name) : name \in DomainNames}

CallIsPrivateOrReserved(host) ==
  /\ invocation' = [fn |-> "isPrivateOrReserved", host |-> host]
  /\ returned' = [fn |-> "isPrivateOrReserved",
                  result |-> isPrivateOrReserved(hostname(host))]
  /\ UNCHANGED <<now, reqs, pc, replayStore, timers, dailyTotals, totals, receipts,
                 resp, verifyCalls, settleCalls, upstreamCalls, compiled, fetched,
                 spendLog>>

NextPrivate == \E host \in HostsTried : CallIsPrivateOrReserved(host)

SpecPrivate == Init /\ [][NextPrivate]_vars

\* Route compilation admits a rule when it is flagged _skip_ssrf or
\* assertNotSSRF accepts its backend_url.
MaxRoutes == 1

compileRoutes(rule) == rule.skip_ssrf \/ ~assertNotSSRF(rule.backend_url)

CompileRoute(url, skip) ==
  /\ Cardinality(compiled) < MaxRoutes
  /\ compileRoutes([backend_url |-> url, skip_ssrf |-> skip])
  /\ compiled' = compiled \cup {[backend_url |-> url, skip_ssrf |-> skip]}
  /\ UNCHANGED <<now, reqs, pc, replayStore, timers, dailyTotals, totals, receipts,
                 resp, verifyCalls, settleCalls, upstreamCalls, fetched,
                 invocation, returned, spendLog>>

\* forwardRequest(provider, ...): builds the URL from provider.backend_url
\* and calls fetch on it.
ForwardRequest(rule) ==
  /\ rule \in compiled
  /\ fetched' = fetched \cup {rule}
  /\ UNCHANGED <<now, reqs, pc, replayStore, timers, dailyTotals, totals, receipts,
                 resp, verifyCalls, settleCalls, upstreamCalls, compiled,
                 invocation, returned, spendLog>>

NextProxy ==
  \/ \E url \in BackendUrls, skip \in BOOLEAN : CompileRoute(url, skip)
  \/ \E rule \in compiled : ForwardRequest(rule)

SpecProxy == Init /\ [][NextProxy]_vars

\* ---------------------------------------------------------------- mandate verification
\* verifyMandate and verifyIntentMandate called on their own, on mandates
\* with any combination of defects, for a tool priced 0.1 or 0.2.
VerifyPrices == {Decimal(1, 1), Decimal(2, 1)}

ConfirmThresholds == {{}, {Decimal(1, 1)}}

Allowlists == {{"paid"}, {"*"}, {"free", "PAID"}}

\* The mandates expire during the last tick.
VerifyExpiry == MaxTime - 1

VerifyMandates ==
  { [type |-> "Mandate", mandate_id |-> "mA", sigValid |-> sig, expires_at |-> exp,
     allowlisted_tool_ids |-> tools, max_spend |-> Decimal(BudgetUnits, 1),
     require_user_confirm_for_price_over |-> over, merchants |-> {}] :
    sig \in BOOLEAN, exp \in {VerifyExpiry}, tools \in Allowlists,
    over \in ConfirmThresholds }

\* merchants lists: another domain, the gateway's in capitals, the wildcard.
MerchantLists ==
  { {<<"b", ".", "i", "o">>}, {<<"A", ".", "I", "O">>}, {<<"*">>} }

\* intentMandateId: "intent-" and the leading digits of the hash of the
\* contents, here the contents themselves.
intentMandateId(contents) == <<"intent-", contents>>

VerifyIntentMandates ==
  { [type |-> "IntentMandate",
     mandate_id |-> intentMandateId([merchants |-> merchants, intent_expiry |-> exp,
                                     budget |-> Decimal(BudgetUnits, 1)]),
     sigValid |-> sig, expires_at |-> exp, allowlisted_tool_ids |-> {},
     max_spend |-> Decimal(BudgetUnits, 1),
     require_user_confirm_for_price_over |-> {}, merchants |-> merchants] :
    sig \in BOOLEAN, exp \in {VerifyExpiry}, merchants \in MerchantLists \ {{<<"*">>}} }

\* Intent mandates that pass the signature and expiry checks, with every
\* merchants list.
MerchantCheckMandates ==
  { [type |-> "IntentMandate",
     mandate_id |-> intentMandateId([merchants |-> merchants,
                                     intent_expiry |-> MaxTime + 1,
                                     budget |-> Decimal(BudgetUnits, 1)]),
     sigValid |-> TRUE, expires_at |-> MaxTime + 1, allowlisted_tool_ids |-> {},
     max_spend |-> Decimal(BudgetUnits, 1),
     require_user_confirm_for_price_over |-> {}, merchants |-> merchants] :
    merchants \in MerchantLists }

\* Where the gateway domain of a request comes from: its Host header and
\* config.gatewayDomain, each possibly absent.
HostSource == [host |-> <<"A", ".", "i", "o", ":", "8", "0">>, gatewayDomain |-> NoString]

GatewayDomainSources ==
  { [host |-> NoString, gatewayDomain |-> NoString],
    HostSource,
    [host |-> <<"b", ".", "i", "o">>, gatewayDomain |-> NoString],
    [host |-> <<"b", ".", "i", "o">>, gatewayDomain |-> <<"A", ".", "i", "o">>] }

VerifyContext(price) ==
  [tool_id |-> "paid", price_usdc |-> price, timestamp |-> now,
   gateway_domain |-> NoString]

VerifyIntentContext(price, source) ==
  [tool_id |-> "paid", price_usdc |-> price, timestamp |-> now,
   gateway_domain |-> resolveGatewayDomain(source.host, source.gatewayDomain)]

\* The history with the price of an approved call added: the exact sum, in
\* tenths, of the prices approved under the mandate on the day of the call.
Spend(mandate, context) ==
  LET day == context.timestamp \div TicksPerDay
      log == spendLog[mandate.type]
      old == {e \in log : e.mandate_id = mandate.mandate_id /\ e.day = day}
      before == IF old = {} THEN 0 ELSE (CHOOSE e \in old : TRUE).tenths
  IN [spendLog EXCEPT ![mandate.type] =
        (log \ old) \cup
        {[mandate_id |-> mandate.mandate_id, day |-> day,
          tenths |-> before + context.price_usdc.digits]}]

\* The call records the spend whatever the verdict.
CallVerifyMandate_SpendsOnDenial(mandate, price) ==
  LET context == VerifyContext(price)
      verdict == verifyMandate(mandate, context)
  IN /\ invocation' = [fn |-> "verifyMandate", mandate |-> mandate, context |-> context,
                       spent |-> getSpent(mandate.mandate_id)]
     /\ returned' = [fn |-> "verifyMandate", verdict |-> verdict]
     /\ dailyTotals' = addSpend(mandate.mandate_id, parseFloat(price))
     /\ spendLog' = IF verdict.approved
                      THEN Spend(mandate, context)
                      ELSE spendLog
     /\ UNCHANGED <<now, reqs, pc, replayStore, timers, totals, receipts, resp,
                    verifyCalls, settleCalls, upstreamCalls, compiled, fetched>>

\* await verifyMandate(mandate, context): the verdict, and on approval the
\* spend added to the daily ledger.
CallVerifyMandate(mandate, price) ==
  LET context == VerifyContext(price)
      verdict == verifyMandate(mandate, context)
  IN /\ invocation' = [fn |-> "verifyMandate", mandate |-> mandate, context |-> context,
                       spent |-> getSpent(mandate.mandate_id)]
     /\ returned' = [fn |-> "verifyMandate", verdict |-> verdict]
     /\ dailyTotals' = IF verdict.approved
                         THEN addSpend(mandate.mandate_id, parseFloat(price))
                         ELSE dailyTotals
     /\ spendLog' = IF verdict.approved
                      THEN Spend(mandate, context)
                      ELSE spendLog
     /\ UNCHANGED <<now, reqs, pc, replayStore, timers, totals, receipts, resp,
                    verifyCalls, settleCalls, upstreamCalls, compiled, fetched>>

\* await verifyIntentMandate(mandate, context): the verdict, and on approval
\* the spend added to the lifetime ledger.
CallVerifyIntentMandate(mandate, price, source) ==
  LET context == VerifyIntentContext(price, source)
      verdict == verifyIntentMandate(mandate, context)
  IN /\ invocation' = [fn |-> "verifyIntentMandate", mandate |-> mandate,
                       context |-> context,
                       spent |-> lifetimeGetSpent(mandate.mandate_id)]
     /\ returned' = [fn |-> "verifyIntentMandate", verdict |-> verdict]
     /\ totals' = IF verdict.approved
                    THEN lifetimeAddSpend(mandate.mandate_id, parseFloat(price))
                    ELSE totals
     /\ spendLog' = IF verdict.approved
                      THEN Spend(mandate, context)
                      ELSE spendLog
     /\ UNCHANGED <<now, reqs, pc, replayStore, timers, dailyTotals, receipts, resp,
                    verifyCalls, settleCalls, upstreamCalls, compiled, fetched>>

NextMandate ==
  \/ \E mandate \in VerifyMandates, price \in VerifyPrices :
       CallVerifyMandate(mandate, price)
  \/ \E mandate \in VerifyIntentMandates, price \in VerifyPrices :
       CallVerifyIntentMandate(mandate, price, HostSource)
  \/ Tick

SpecMandate == Init /\ [][NextMandate]_vars

\* verifyIntentMandate called on its own from the mandate middleware, for
\* every merchants list and every source of the gateway domain.
NextIntent ==
  \E mandate \in MerchantCheckMandates, price \in VerifyPrices,
     source \in GatewayDomainSources :
    CallVerifyIntentMandate(mandate, price, source)

SpecIntent == Init /\ [][NextIntent]_vars

\* ---------------------------------------------------------------- payment gate
\* The route match and the payment middleware of a gateway created with a
\* route table, called on their own: a literal paid route, two free routes
\* (prices "0.0" and "0.00") and a paid route with a parameter.
GateRules ==
  { [path |-> <<"api", "paid">>, tool_id |-> "paid", price_usdc |-> Decimal(PaidPrice, 1)],
    [path |-> <<"api", "free">>, tool_id |-> "free", price_usdc |-> Decimal(0, 1)],
    [path |-> <<"api", "gratis">>, tool_id |-> "gratis", price_usdc |-> Decimal(0, 2)],
    [path |-> <<"api", ParamSegment>>, tool_id |-> "item", price_usdc |-> Decimal(PaidPrice, 1)] }

GateTables == SUBSET GateRules

GatePaths == Paths \cup {<<"api", "gratis">>}

\* A request dispatched by a gateway created with the rules: 404 without a
\* matching rule; otherwise the payment middleware, and settle() once the
\* upstream has answered 200.
CallGate(rules, path, paymentHeader, threw) ==
  LET rule == matchRuleIn(rules, path)
      config == buildRoutesConfig(rules)
      gated == rule # NotFound /\ config # {} /\ requiresPaymentIn(config, path)
      result == IF rule = NotFound THEN "not-found"
                ELSE IF ~gated THEN "no-payment-required"
                ELSE processHTTPRequest(paymentHeader, threw)
      verified == [x402Verified |-> result = "payment-verified"]
  IN /\ invocation' = [fn |-> "gate", rules |-> rules, path |-> path,
                       paymentHeader |-> paymentHeader]
     /\ returned' = [fn |-> "gate", rule |-> rule, result |-> result,
                     verify |-> gated /\ ~threw /\ paymentHeader # "absent",
                     settle |-> settleOnUpstream(200) /\ settle(verified)]
     /\ UNCHANGED <<now, reqs, pc, replayStore, timers, dailyTotals, totals, receipts,
                    resp, verifyCalls, settleCalls, upstreamCalls, compiled, fetched,
                    spendLog>>

NextGate ==
  \E rules \in GateTables, path \in GatePaths, paymentHeader \in PaymentHeaders,
     threw \in BOOLEAN :
    CallGate(rules, path, paymentHeader, threw)

SpecGate == Init /\ [][NextGate]_vars

\* ---------------------------------------------------------------- admin auth
STR_Bearer == <<"B", "e", "a", "r", "e", "r", " ">>

\* str.slice(start)
slice(str, start) == SubSeq(str, start + 1, Len(str))

\* The token is accepted whenever the header starts with "Bearer ".
createAdminAuth_AnyBearer(adminKey, auth) ==
  IF adminKey = NoString
    THEN [status |-> 403, next |-> FALSE]
    ELSE IF auth = NoString \/ ~startsWith(auth, STR_Bearer)
      THEN [status |-> 401, next |-> FALSE]
      ELSE [status |-> 0, next |-> TRUE]

\* The middleware createAdminAuth() returns, called with the value of
\* RT_ADMIN_KEY and the Authorization header of the request (the empty string
\* when unset): the status it answers with, 0 when it answers nothing, and
\* whether it calls next().
createAdminAuth(adminKey, auth) ==
  IF adminKey = NoString
    THEN [status |-> 403, next |-> FALSE]
    ELSE IF \/ auth = NoString
            \/ ~startsWith(auth, STR_Bearer)
            \/ slice(auth, Len(STR_Bearer)) # adminKey
      THEN [status |-> 401, next |-> FALSE]
      ELSE [status |-> 0, next |-> TRUE]

AdminTokens == {NoString, <<"k">>, <<"K">>, <<"k", "k">>, <<"k", " ">>}

AdminKeys == AdminTokens

AuthSchemes ==
  {NoString, STR_Bearer, <<"b", "e", "a", "r", "e", "r", " ">>,
   <<"B", "e", "a", "r", "e", "r">>, <<"B", "a", "s", "i", "c", " ">>,
   STR_Bearer \o <<" ">>}

AuthorizationHeaders == {scheme \o token : scheme \in AuthSchemes, token \in AdminTokens}

\* A request under /admin: the admin handler runs when the middleware calls
\* next().
CallAdminAuth(adminKey, auth) ==
  /\ invocation' = [fn |-> "createAdminAuth", adminKey |-> adminKey, authorization |-> auth]
  /\ returned' = [fn |-> "createAdminAuth", result |-> createAdminAuth(adminKey, auth)]
  /\ UNCHANGED <<now, reqs, pc, replayStore, timers, dailyTotals, totals, receipts,
                 resp, verifyCalls, settleCalls, upstreamCalls, compiled, fetched,
                 spendLog>>

NextAdmin ==
  \E adminKey \in AdminKeys, auth \in AuthorizationHeaders : CallAdminAuth(adminKey, auth)

SpecAdmin == Init /\ [][NextAdmin]_vars

\* ---------------------------------------------------------------- routes-loader.ts
isDecDigit(ch) == \E k \in 1..10 : DecDigits[k] = ch

\* isNaN(parseFloat(str)) of a string without leading white space:
\* parseFloat reads the longest prefix that is a decimal literal, an optional
\* sign first, and gives NaN only when there is none.
parseFloatIsNaN(str) ==
  LET unsigned == IF str # <<>> /\ str[1] \in {"+", "-"} THEN Tail(str) ELSE str
  IN ~ \/ unsigned # <<>> /\ isDecDigit(unsigned[1])
       \/ Len(unsigned) >= 2 /\ unsigned[1] = "." /\ isDecDigit(unsigned[2])
       \/ startsWith(unsigned, <<"I", "n", "f", "i", "n", "i", "t", "y">>)

\* validateRoute(entry, index): whether it throws.  Every member of the
\* entries of the model is a string and the provider is an object.
validateRouteThrows(e) ==
  \/ e.method = NoString
  \/ ~startsWith(e.path, <<"/">>)
  \/ e.tool_id = NoString
  \/ parseFloatIsNaN(e.price_usdc)
  \/ e.provider.provider_id = NoString
  \/ e.provider.backend_url = NoString

\* loadRoutesFromFile of a file that parses to {"routes": [...]}: it throws
\* when validateRoute throws for an entry and returns one rule per entry
\* otherwise.
loadRoutesFromFile(file) ==
  IF \E i \in DOMAIN file : validateRouteThrows(file[i])
    THEN [threw |-> TRUE, rules |-> <<>>]
    ELSE [threw |-> FALSE,
          rules |-> [i \in DOMAIN file |->
                       [method |-> toUpperCase(file[i].method), path |-> file[i].path,
                        tool_id |-> file[i].tool_id, price_usdc |-> file[i].price_usdc,
                        provider |-> file[i].provider]]]

PriceStrings ==
  { <<"0", ".", "2">>, <<"0">>, <<"-", "1">>, <<"1", "x">>, <<"a", "b", "c">>,
    <<"0", ".", "1", "2", "3", "4", "5", "6", "7">>, <<".", "5">>, NoString }

RouteEntry(path, tool, price) ==
  [method |-> <<"g", "e", "t">>, path |-> path, tool_id |-> tool, price_usdc |-> price,
   provider |-> [provider_id |-> <<"p">>, backend_url |-> STR_example]]

RouteEntries ==
  {RouteEntry(<<"/", "q">>, tool, price) : tool \in {<<"a">>, <<"b">>}, price \in PriceStrings}
  \cup {RouteEntry(<<"q">>, <<"a">>, <<"0">>)}

MaxRouteEntries == 2

RoutesFiles == UNION {[1..n -> RouteEntries] : n \in 0..MaxRouteEntries}

CallLoadRoutes(file) ==
  /\ invocation' = [fn |-> "loadRoutesFromFile", file |-> file]
  /\ returned' = [fn |-> "loadRoutesFromFile", result |-> loadRoutesFromFile(file)]
  /\ UNCHANGED <<now, reqs, pc, replayStore, timers, dailyTotals, totals, receipts,
                 resp, verifyCalls, settleCalls, upstreamCalls, compiled, fetched,
                 spendLog>>

NextLoader == \E file \in RoutesFiles : CallLoadRoutes(file)

SpecLoader == Init /\ [][NextLoader]_vars

\* ---------------------------------------------------------------- routing
\* matchRule called on its own with a table of up to MaxTableRules of the
\* rules below, in any order of registration.
RoutingRules ==
  { [method |-> "GET", path |-> <<"users", ParamSegment>>, tool_id |-> "get-user"],
    [method |-> "GET", path |-> <<"users", ParamSegment, "profile">>, tool_id |-> "get-profile"],
    [method |-> "GET", path |-> <<"users", "me">>, tool_id |-> "get-me"],
    [method |-> "GET", path |-> <<ParamSegment, "me">>, tool_id |-> "any-me"],
    [method |-> "POST", path |-> <<"users", ParamSegment>>, tool_id |-> "post-user"] }

MaxTableRules == 3

RoutingTables ==
  {table \in UNION {[1..n -> RoutingRules] : n \in 0..MaxTableRules} :
     \A i, j \in DOMAIN table : table[i] = table[j] => i = j}

RoutingPaths ==
  {<<"users", "42">>, <<"users", "42", "profile">>, <<"users", "me">>, <<"quote">>}

CallMatchRule(rules, method, path) ==
  /\ invocation = NoInvocation
  /\ invocation' = [fn |-> "matchRule", rules |-> rules, method |-> method,
                    path |-> path]
  /\ returned' = [fn |-> "matchRule", result |-> matchRuleCompiled(rules, method, path)]
  /\ UNCHANGED <<now, reqs, pc, replayStore, timers, dailyTotals, totals, receipts,
                 resp, verifyCalls, settleCalls, upstreamCalls, compiled, fetched,
                 spendLog>>

NextRouting ==
  \E table \in RoutingTables, method \in {"GET", "POST", "DELETE"}, path \in RoutingPaths :
    CallMatchRule(table, method, path)

SpecRouting == Init /\ [][NextRouting]_vars

\* ---------------------------------------------------------------- signing
\* mandateSigningPayload called on its own, on two Kind A mandates whose
\* fields are short strings that may hold the separators.

\* The UTF-8 byte of a character of the signed fields.
utf8Byte(ch) ==
  IF ch = "," THEN 44
  ELSE IF ch = "|" THEN 124
  ELSE IF \E k \in 1..10 : DecDigits[k] = ch THEN 48 + DigitValue(ch)
  ELSE 96 + (CHOOSE k \in 1..26 : LowerLetters[k] = ch)

\* viem's toHex of a string: "0x" and two hex digits for each byte.
RECURSIVE hexBytes(_)
hexBytes(str) ==
  IF str = <<>> THEN <<>>
  ELSE LET h == hexString(utf8Byte(str[1]))
       IN (IF Len(h) = 1 THEN <<"0">> \o h ELSE h) \o hexBytes(Tail(str))

toHex(str) == <<"0", "x">> \o hexBytes(str)

mandateSigningPayload(mandate) ==
  keccak256(toHex(join(
    << mandate.mandate_id,
       mandate.owner_pubkey,
       mandate.expires_at,
       mandate.max_spend_usdc_per_day,
       join(sort(mandate.allowlisted_tool_ids), ","),
       IF mandate.confirm.present THEN mandate.confirm.value ELSE <<>> >>,
    "|")))

SignedMandates ==
  { [mandate_id |-> id, owner_pubkey |-> owner, expires_at |-> <<"9">>,
     max_spend_usdc_per_day |-> <<"5">>, allowlisted_tool_ids |-> tools,
     confirm |-> confirm] :
    id \in {<<"m">>, <<"m", "|", "k">>},
    owner \in {<<"o">>, <<"k", "|", "o">>},
    tools \in {<<>>, <<<<"a">>>>, <<<<"a">>, <<"b">>>>, <<<<"b">>, <<"a">>>>,
               <<<<"a", ",", "b">>>>},
    confirm \in {[present |-> FALSE, value |-> <<>>], [present |-> TRUE, value |-> <<"1">>]} }

CallMandateSigningPayload(a, b) ==
  /\ invocation = NoInvocation
  /\ invocation' = [fn |-> "mandateSigningPayload", a |-> a, b |-> b]
  /\ returned' = [fn |-> "mandateSigningPayload", hashA |-> mandateSigningPayload(a),
                  hashB |-> mandateSigningPayload(b)]
  /\ UNCHANGED <<now, reqs, pc, replayStore, timers, dailyTotals, totals, receipts,
                 resp, verifyCalls, settleCalls, upstreamCalls, compiled, fetched,
                 spendLog>>

NextSigning == \E a, b \in SignedMandates : CallMandateSigningPayload(a, b)

SpecSigning == Init /\ [][NextSigning]_vars

\* ---------------------------------------------------------------- checkReplay
\* checkReplay called on its own by one caller that awaits each call, as the
\* unit tests do, while the clock moves and the timers of the store fire.
\* has() and insert() of the in-memory store resolve at once, so nothing but
\* the caller's own continuation runs between them.  returned carries, for
\* each fingerprint, the deadline of the last call that remembered it.
MaxCalls == 3

NeverRemembered == -1

lastDeadlines ==
  IF returned.fn = "checkReplay" THEN returned.deadlines
  ELSE [h \in ReplayHashes |-> NeverRemembered]

callsMade == IF invocation.fn = "checkReplay" THEN invocation.n ELSE 0

CallCheckReplay(hash, ttlMs) ==
  /\ callsMade < MaxCalls
  /\ LET isReplay == has(replayStore, hash)
     IN /\ invocation' = [fn |-> "checkReplay", hash |-> hash, ttlMs |-> ttlMs,
                          at |-> now, n |-> callsMade + 1]
        /\ returned' = [fn |-> "checkReplay", result |-> isReplay,
                        deadlines |-> IF isReplay THEN lastDeadlines
                                      ELSE [lastDeadlines EXCEPT ![hash] = now + ttlMs]]
        /\ IF isReplay
             THEN UNCHANGED <<replayStore, timers>>
             ELSE /\ timers' = timers \cup {insertTimer(hash, ttlMs)}
                  /\ replayStore' = insertStore(replayStore, hash, ttlMs)
  /\ UNCHANGED <<now, reqs, pc, dailyTotals, totals, receipts, resp,
                 verifyCalls, settleCalls, upstreamCalls, compiled, fetched, spendLog>>

NextCheckReplay ==
  \/ \E hash \in ReplayHashes, ttlMs \in ReplayTtls : CallCheckReplay(hash, ttlMs)
  \/ \E t \in timers : TimerFire(t)
  \/ Tick

SpecCheckReplay == Init /\ [][NextCheckReplay]_vars

\* ---------------------------------------------------------------- settle
\* createPaymentSystem.settle called on its own.  A string is a one-element
\* sequence, the empty string <<"">>, null and a missing member Null.

\* value || null.
orNull(value) == IF value = <<"">> \/ value = Null THEN Null ELSE value

NoSettlement == [txHash |-> Null, network |-> Null, payer |-> Null]

\* What httpServer.processSettlement does: it throws, or resolves to a
\* result with success and, set or not, transaction, network and payer.
SettlementOutcomes ==
  {[threw |-> TRUE, success |-> FALSE, transaction |-> Null, network |-> Null,
    payer |-> Null]}
  \cup
  {[threw |-> FALSE, success |-> success, transaction |-> transaction,
    network |-> network, payer |-> payer] :
     success \in BOOLEAN,
     transaction \in {Null, <<"">>, <<"0xa">>},
     network \in {Null, <<"">>, <<"base">>},
     payer \in {Null, <<"">>, <<"0xp">>}}

\* A throw of processSettlement that leaves settle.
settleResult_Rethrows(req, outcome) ==
  IF ~settle(req)
    THEN [threw |-> FALSE, contacted |-> FALSE, result |-> NoSettlement]
  ELSE IF outcome.threw
    THEN [threw |-> TRUE, contacted |-> TRUE, result |-> NoSettlement]
  ELSE IF outcome.success
    THEN [threw |-> FALSE, contacted |-> TRUE,
          result |-> [txHash |-> orNull(outcome.transaction),
                      network |-> orNull(outcome.network),
                      payer |-> orNull(outcome.payer)]]
  ELSE [threw |-> FALSE, contacted |-> TRUE, result |-> NoSettlement]

\* The result of settle(req) when processSettlement does outcome; contacted
\* says whether processSettlement was called.
settleResult(req, outcome) ==
  IF ~settle(req)
    THEN [threw |-> FALSE, contacted |-> FALSE, result |-> NoSettlement]
  ELSE IF outcome.threw
    THEN [threw |-> FALSE, contacted |-> TRUE, result |-> NoSettlement]
  ELSE IF outcome.success
    THEN [threw |-> FALSE, contacted |-> TRUE,
          result |-> [txHash |-> orNull(outcome.transaction),
                      network |-> orNull(outcome.network),
                      payer |-> orNull(outcome.payer)]]
  ELSE [threw |-> FALSE, contacted |-> TRUE, result |-> NoSettlement]

CallSettle(verified, outcome) ==
  /\ invocation' = [fn |-> "settle", req |-> [x402Verified |-> verified],
                    outcome |-> outcome]
  /\ returned' = [fn |-> "settle",
                  settled |-> settleResult([x402Verified |-> verified], outcome)]
  /\ UNCHANGED <<now, reqs, pc, replayStore, timers, dailyTotals, totals, receipts,
                 resp, verifyCalls, settleCalls, upstreamCalls, compiled, fetched,
                 spendLog>>

NextSettle ==
  \E verified \in BOOLEAN, outcome \in SettlementOutcomes : CallSettle(verified, outcome)

SpecSettle == Init /\ [][NextSettle]_vars

\* ---------------------------------------------------------------- reputation
\* createReputationService(config).checkReputation for one agent, called by
\* NumCallers callers whose calls may overlap, while the clock moves and the
\* oracle's summary changes.  The state of the service is kept in returned
\* (the cache, the oracle, the reads that succeeded) and that of the calls
\* in invocation.  CacheTtl is CACHE_TTL_MS in ticks.
NumCallers == 2
CacheTtl == 2
MinScore == 20

Callers == 1..NumCallers

\* What getSummary returns: count, summaryValue, summaryValueDecimals.
OracleValues ==
  { [count |-> 0, summaryValue |-> 195, summaryValueDecimals |-> 1],
    [count |-> 1, summaryValue |-> 195, summaryValueDecimals |-> 1],
    [count |-> 1, summaryValue |-> 20, summaryValueDecimals |-> 0] }

NoCacheEntry == [expiry |-> -1]

NoResult == [count |-> -1]

IdleCall == [state |-> "idle", now |-> 0, result |-> NoResult]

calls ==
  IF invocation.fn = "checkReputation" THEN invocation.calls
  ELSE [c \in Callers |-> IdleCall]

service ==
  IF returned.fn = "checkReputation" THEN returned
  ELSE [fn |-> "checkReputation", cache |-> NoCacheEntry,
        oracle |-> [count |-> 0, summaryValue |-> 195, summaryValueDecimals |-> 1],
        reads |-> {}]

cache == service.cache

\* score = Number(summaryValue) / 10 ** Number(summaryValueDecimals), kept
\* as the decimal it is; allowed = feedbackCount === 0 || score >= minScore.
ReputationResult(summary) ==
  [score |-> Decimal(summary.summaryValue, summary.summaryValueDecimals),
   count |-> summary.count,
   allowed |-> \/ summary.count = 0
               \/ summary.summaryValue >= MinScore * 10 ^ summary.summaryValueDecimals]

\* checkReputation up to `await client.readContract(...)`: a cache entry
\* that has not expired is returned, otherwise the oracle is asked.
CheckReputationStart(c) ==
  /\ calls[c].state # "reading"
  /\ invocation' =
       [fn |-> "checkReputation",
        calls |-> [calls EXCEPT ![c] =
                     IF cache # NoCacheEntry /\ cache.expiry > now
                       THEN [state |-> "returned", now |-> now, result |-> cache.result]
                       ELSE [state |-> "reading", now |-> now, result |-> NoResult]]]
  /\ returned' = service
  /\ UNCHANGED <<now, reqs, pc, replayStore, timers, dailyTotals, totals, receipts,
                 resp, verifyCalls, settleCalls, upstreamCalls, compiled, fetched,
                 spendLog>>

\* readContract resolves with the oracle's summary of that moment: the
\* result is cached until the `now` of the call's start plus the TTL.
ReadContractResolves(c) ==
  /\ calls[c].state = "reading"
  /\ LET result == ReputationResult(service.oracle)
     IN /\ invocation' =
             [fn |-> "checkReputation",
              calls |-> [calls EXCEPT ![c] = [state |-> "returned", now |-> @.now,
                                              result |-> result]]]
        /\ returned' =
             [service EXCEPT
                !.cache = [result |-> result, expiry |-> calls[c].now + CacheTtl],
                !.reads = {rd \in @ : rd.at + CacheTtl > now}
                            \cup {[at |-> calls[c].now, result |-> result]}]
  /\ UNCHANGED <<now, reqs, pc, replayStore, timers, dailyTotals, totals, receipts,
                 resp, verifyCalls, settleCalls, upstreamCalls, compiled, fetched,
                 spendLog>>

\* readContract rejects: checkReputation throws before cache.set.
ReadContractRejects(c) ==
  /\ calls[c].state = "reading"
  /\ invocation' =
       [fn |-> "checkReputation",
        calls |-> [calls EXCEPT ![c] = [state |-> "threw", now |-> @.now,
                                        result |-> NoResult]]]
  /\ returned' = service
  /\ UNCHANGED <<now, reqs, pc, replayStore, timers, dailyTotals, totals, receipts,
                 resp, verifyCalls, settleCalls, upstreamCalls, compiled, fetched,
                 spendLog>>

\* Feedback given on chain changes the summary.
OracleChanges(summary) ==
  /\ summary # service.oracle
  /\ returned' = [service EXCEPT !.oracle = summary]
  /\ invocation' = [fn |-> "checkReputation", calls |-> calls]
  /\ UNCHANGED <<now, reqs, pc, replayStore, timers, dailyTotals, totals, receipts,
                 resp, verifyCalls, settleCalls, upstreamCalls, compiled, fetched,
                 spendLog>>

NextReputation ==
  \/ \E c \in Callers : CheckReputationStart(c)
  \/ \E c \in Callers : ReadContractResolves(c)
  \/ \E c \in Callers : ReadContractRejects(c)
  \/ \E summary \in OracleValues : OracleChanges(summary)
  \/ Tick

SpecReputation == Init /\ [][NextReputation]_vars

\* ================================================================ claims
\* The exact sum, in tenths, of the route prices of the requests S (every
\* route price has one fraction digit).
RECURSIVE SumPrices(_)
SumPrices(S) ==
  IF S = {} THEN 0
  ELSE LET r == CHOOSE x \in S : TRUE
       IN reqs[r].routePrice.digits + SumPrices(S \ {r})

\* The double a ledger holds when it holds exactly that many tenths.
Holds(tenths) == parseFloat(Decimal(tenths, 1))

ReceiptsOf(r) == {i \in DOMAIN receipts : receipts[i].request_id = r}

Matched(r) == matchRule(reqs[r].path) # NotFound

Bears(r, mandate) == pc[r] # "new" /\ reqs[r].mandateHeader = mandate

Approved(r) == reqs[r].mandateVerdict = "APPROVED"

\* C1: every finished /api/* request (the 400 of an undecodable mandate
\* aside) has exactly one receipt in the receipt store.
C1_ExactlyOneReceipt ==
  \A r \in Reqs :
    (pc[r] = "done" /\ resp[r].status # 400) => Cardinality(ReceiptsOf(r)) = 1

\* C2: the response of a finished request is that of the earliest stage, in
\* the order route-match, idempotency, mandate, payment, upstream, that
\* denies it: 404 ROUTE_NOT_FOUND for an unmatched route whatever else the
\* request carries, 409 REPLAY_DETECTED for a replay whatever its mandate.
C2_StageOrder ==
  \A r \in Reqs :
    pc[r] = "done" =>
      IF ~Matched(r)
        THEN resp[r].status = 404 /\ resp[r].reason_code = "ROUTE_NOT_FOUND"
      ELSE IF reqs[r].idempotencyKey # NoKey /\ reqs[r].seen
        THEN resp[r].status = 409 /\ resp[r].reason_code = "REPLAY_DETECTED"
      ELSE IF reqs[r].mandateHeader.type = "malformed"
        THEN resp[r].status = 400
      ELSE IF reqs[r].mandateHeader.type # "absent" /\ ~reqs[r].mandateHeader.sigValid
        THEN resp[r].status = 403 /\ resp[r].reason_code = "INVALID_SIGNATURE"
      ELSE IF reqs[r].mandateVerdict = "DENIED"
        THEN resp[r].status = 403
      ELSE IF reqs[r].paymentResult = "payment-error"
        THEN resp[r].status = 402
      ELSE resp[r].status \in {200, 500, 502} /\ r \in upstreamCalls

\* C2 witness: a replayed request that also bears a mandate with a bad
\* signature was answered 409 REPLAY_DETECTED.
C2_Witness ==
  \E r \in Reqs :
    /\ pc[r] = "done"
    /\ reqs[r].seen
    /\ reqs[r].mandateHeader = MandateBadSig
    /\ resp[r].status = 409
    /\ resp[r].reason_code = "REPLAY_DETECTED"

\* C3: of two requests with the same fingerprint that both ran checkReplay,
\* exactly one obtained isReplay = false.
C3_ExactlyOneProceeds ==
  \A r1, r2 \in Reqs :
    (/\ r1 # r2
     /\ reqs[r1].requestHash # NoHash
     /\ reqs[r1].requestHash = reqs[r2].requestHash
     /\ reqs[r1].isReplay # "unset"
     /\ reqs[r2].isReplay # "unset")
    => (reqs[r1].isReplay = "false") # (reqs[r2].isReplay = "false")

\* C4: a request that repeats the path and idempotency key of a request
\* which passed the idempotency stage before it arrived, less than
\* replay_ttl_ms after it, is answered 409 REPLAY_DETECTED.
C4_RepeatWithinTtlIsReplay ==
  \A r1, r2 \in Reqs :
    (/\ r1 \in reqs[r2].after
     /\ reqs[r1].isReplay = "false"
     /\ reqs[r2].isReplay # "unset"
     /\ reqs[r1].path = reqs[r2].path
     /\ reqs[r1].idempotencyKey = reqs[r2].idempotencyKey
     /\ reqs[r2].arrivedAt - reqs[r1].arrivedAt < ReplayTtl)
    => /\ reqs[r2].isReplay = "true"
       /\ resp[r2].status = 409
       /\ resp[r2].reason_code = "REPLAY_DETECTED"

\* C5: while the TTL of an insert has not elapsed (its timer is armed and
\* not yet due), has() of the inserted hash is true.
C5_SeenUntilTtl ==
  \A t \in timers : now < t.fireAt => has(replayStore, t.hash)

\* C6: once no request is in flight, each ledger holds the prices of the
\* approved requests that were not then denied by payment or failed
\* upstream: the increment of every other approved request is reverted.
Charged(mandate) ==
  {r \in Reqs : Bears(r, mandate) /\ Approved(r) /\ resp[r].status \notin {402, 502}}

C6_RevertedOnFailure ==
  (\A r \in Reqs : pc[r] \in {"new", "done"}) =>
    /\ getSpent(MandateA.mandate_id) = Holds(SumPrices(Charged(MandateA)))
    /\ lifetimeGetSpent(IntentB.mandate_id) = Holds(SumPrices(Charged(IntentB)))

\* C7: the prices of the requests approved under one mandate never sum to
\* more than its budget: per UTC day for Kind A, over the lifetime for
\* Kind B, whatever the interleaving of the requests bearing it.
ApprovedOn(mandate, day) ==
  {r \in Reqs : Bears(r, mandate) /\ Approved(r) /\ reqs[r].approvedDay = day}

ApprovedEver(mandate) == {r \in Reqs : Bears(r, mandate) /\ Approved(r)}

C7_BudgetNeverExceeded ==
  /\ \A day \in 0..(MaxTime \div TicksPerDay) :
       SumPrices(ApprovedOn(MandateA, day)) <= MandateA.max_spend.digits
  /\ SumPrices(ApprovedEver(IntentB)) <= IntentB.max_spend.digits

\* C7 witness: of two overlapping requests bearing the same Kind A mandate,
\* the one that arrived later was approved first and the earlier one was
\* then denied for the budget.
C7_Witness ==
  /\ NumReqs >= 2
  /\ Bears(1, MandateA) /\ Bears(2, MandateA)
  /\ Approved(2)
  /\ resp[1].status = 403
  /\ resp[1].reason_code = "MANDATE_BUDGET_EXCEEDED"

\* C8: a request whose mandate was approved has added its route price to
\* the ledger of that mandate exactly once, from the moment it enters the
\* payment stage until it has succeeded: the ledger reads the price of the
\* request plus those of the other requests approved under the mandate
\* (for Kind A, those of the same UTC day).
C8_IncrementedOnce ==
  \A r \in Reqs :
    (/\ Approved(r)
     /\ \/ pc[r] \in {"payment", "proxy"}
        \/ pc[r] = "done" /\ resp[r].status = 200)
    => /\ Bears(r, MandateA) /\ reqs[r].approvedDay = todayUTC =>
            getSpent(MandateA.mandate_id) =
              Holds(reqs[r].routePrice.digits
                      + SumPrices(ApprovedOn(MandateA, todayUTC) \ {r}))
       /\ Bears(r, IntentB) =>
            lifetimeGetSpent(IntentB.mandate_id) =
              Holds(reqs[r].routePrice.digits + SumPrices(ApprovedEver(IntentB) \ {r}))

\* C8 witness: a paid request with an approved Kind A mandate succeeded on
\* the day of its approval.
C8_Witness ==
  \E r \in Reqs :
    /\ Bears(r, MandateA) /\ Approved(r)
    /\ reqs[r].routePrice.digits > 0
    /\ reqs[r].approvedDay = todayUTC
    /\ pc[r] = "done" /\ resp[r].status = 200

\* C9: a paid request whose payment header the facilitator's verify() did
\* not accept is answered 402 with a stored DENIED receipt of reason
\* INVALID_PAYMENT, and is neither forwarded upstream nor settled.
C9_RejectedWithReceipt ==
  \A r \in Reqs :
    (/\ pc[r] = "done"
     /\ r \in verifyCalls
     /\ reqs[r].paymentHeader = "bad"
     /\ reqs[r].paymentResult = "payment-error")
    => /\ resp[r].status = 402
       /\ resp[r].reason_code = "INVALID_PAYMENT"
       /\ \E i \in ReceiptsOf(r) :
            receipts[i].outcome = "DENIED" /\ receipts[i].reason_code = "INVALID_PAYMENT"
       /\ r \notin upstreamCalls
       /\ r \notin settleCalls

UpstreamFailed(r) ==
  /\ pc[r] = "done"
  /\ r \in upstreamCalls
  /\ (reqs[r].upstream = -1 \/ reqs[r].upstream >= 500)

C11_UpstreamFailureIs502 ==
  \A r \in Reqs :
    UpstreamFailed(r) =>
      /\ resp[r].status = 502
      /\ resp[r].outcome = "ERROR"
      /\ resp[r].reason_code = "UPSTREAM_ERROR_NO_CHARGE"
      /\ \E i \in ReceiptsOf(r) :
           /\ receipts[i].outcome = "ERROR"
           /\ receipts[i].reason_code = "UPSTREAM_ERROR_NO_CHARGE"
           /\ receipts[i].price_usdc = Decimal(0, 2)

\* C12: the outcome of the receipt a response carries matches the status
\* family of the response: SUCCESS exactly with 2xx, DENIED exactly with
\* 4xx (400 and 429 aside), ERROR exactly with 5xx.
C12_OutcomeMatchesStatus ==
  \A r \in Reqs :
    (pc[r] = "done" /\ resp[r].receipt) =>
      /\ resp[r].outcome = "SUCCESS" <=> (resp[r].status >= 200 /\ resp[r].status <= 299)
      /\ resp[r].outcome = "DENIED" <=>
           (resp[r].status >= 400 /\ resp[r].status <= 499 /\ resp[r].status \notin {400, 429})
      /\ resp[r].outcome = "ERROR" <=> (resp[r].status >= 500 /\ resp[r].status <= 599)

\* C13: once a request has been answered 404, 409, 400, 403 or 402, no
\* step is taken for it any more: its position and state stay as they are,
\* it is not forwarded upstream, the facilitator is not called for it, and
\* a ledger changes only by the mandate verification of another request.
Terminal(r) == resp[r].status \in {404, 409, 400, 403, 402}

C13_NoStageAfterTerminal ==
  [][\A r \in Reqs :
       Terminal(r) =>
         /\ pc'[r] = pc[r] /\ reqs'[r] = reqs[r] /\ resp'[r] = resp[r]
         /\ r \notin upstreamCalls' /\ r \notin settleCalls'
         /\ r \in verifyCalls' <=> r \in verifyCalls
         /\ r \in verifyCalls => resp[r].status = 402
         /\ (dailyTotals' # dailyTotals \/ totals' # totals) =>
              \E q \in Reqs \ {r} : pc[q] = "verifyMessage" /\ pc'[q] # "verifyMessage"]_vars

\* C13 witness: a request was answered 403 for its mandate signature and
\* another request bearing the same mandate id was approved and succeeded.
C13_Witness ==
  \E r1, r2 \in Reqs :
    /\ r1 # r2
    /\ reqs[r1].mandateHeader = MandateBadSig /\ resp[r1].status = 403
    /\ Bears(r2, MandateA) /\ Approved(r2)
    /\ pc[r2] = "done" /\ resp[r2].status = 200

\* The private and reserved hosts: localhost, 0.0.0.0, 127.0.0.0/8,
\* 10.0.0.0/8, 172.16.0.0/12, 192.168.0.0/16, 169.254.0.0/16, ::1,
\* fc00::/7 and fe80::/10.
InPrivateSet(host) ==
  \/ host.kind = "name" /\ host.name = STR_localhost
  \/ /\ host.kind = "v4"
     /\ \/ host.octets = <<0, 0, 0, 0>>
        \/ host.octets[1] \in {127, 10}
        \/ host.octets[1] = 172 /\ host.octets[2] \in 16..31
        \/ host.octets[1] = 192 /\ host.octets[2] = 168
        \/ host.octets[1] = 169 /\ host.octets[2] = 254
  \/ /\ host.kind = "v6"
     /\ \/ host.hi = 0 /\ host.lo = 1
        \/ host.hi \in 64512..65023
        \/ host.hi \in 65152..65215

\* C14: assertNotSSRF throws SSRFError for every URL that does not parse
\* and for every URL whose host is private or reserved.
C14_PrivateHostsThrow ==
  (returned.fn = "assertNotSSRF"
     /\ (invocation.url.kind = "unparsable" \/ InPrivateSet(invocation.url)))
  => returned.threw

\* C15: forwardRequest never calls fetch on the backend_url of a route
\* compiled without _skip_ssrf whose host is private or reserved.
C15_NoPrivateFetch ==
  \A rule \in fetched : ~rule.skip_ssrf => ~InPrivateSet(rule.backend_url)

\* C16: two requests fingerprinted by the idempotency stage in the same
\* time window have equal fingerprints only if their method, path, query,
\* body, route price and idempotency key are all equal.
C16_FingerprintSensitive ==
  (returned.fn = "idempotencyFingerprint" /\ returned.a = returned.b)
  => invocation.a = invocation.b

\* The exact sum, in tenths, of the prices the log holds for a mandate on
\* the UTC days of a set.
AllDays == 0..(MaxTime \div TicksPerDay)

RECURSIVE LogTenths(_, _, _)
LogTenths(log, mandateId, days) ==
  IF log = {} THEN 0
  ELSE LET e == CHOOSE x \in log : TRUE
       IN (IF e.mandate_id = mandateId /\ e.day \in days THEN e.tenths ELSE 0)
          + LogTenths(log \ {e}, mandateId, days)

\* What the history held for the mandate of the last call before that call.
PriorTenths(days) ==
  LogTenths(spendLog[invocation.mandate.type], invocation.mandate.mandate_id, days)
  - (IF returned.verdict.approved /\ invocation.context.timestamp \div TicksPerDay \in days
       THEN invocation.context.price_usdc.digits ELSE 0)

\* The merchant check as the last call made it.
MerchantMatched ==
  \E merchant \in invocation.mandate.merchants :
    toLowerCase(merchant) = toLowerCase(invocation.context.gateway_domain)

\* The last call passed the signature and expiry checks.
PassedSignatureAndExpiry ==
  /\ invocation.mandate.sigValid
  /\ ~(invocation.mandate.expires_at < invocation.context.timestamp)

DeniedFor(reason) == ~returned.verdict.approved /\ returned.verdict.reason_code = reason

\* C17: a verifyMandate call that passed the signature, expiry and allowlist
\* checks was denied MANDATE_BUDGET_EXCEEDED exactly when the prices approved
\* under the mandate on that UTC day plus the price of the call exceed
\* max_spend_usdc_per_day, and no daily ledger entry exceeds the maximum.
C17_DeniedIffOverBudget ==
  /\ (/\ invocation.fn = "verifyMandate"
      /\ PassedSignatureAndExpiry
      /\ invocation.context.tool_id \in invocation.mandate.allowlisted_tool_ids)
     => (DeniedFor("MANDATE_BUDGET_EXCEEDED")
          <=> PriorTenths({invocation.context.timestamp \div TicksPerDay})
                + invocation.context.price_usdc.digits
              > invocation.mandate.max_spend.digits)
  /\ \A e \in dailyTotals :
       ~doubleGreater(e.total, parseFloat(Decimal(BudgetUnits, 1)))

\* C18: the lifetime ledger of an intent mandate never decreases or resets,
\* it never exceeds budget.amount, and a verifyIntentMandate call that passed
\* the signature, expiry and merchant checks was denied
\* INTENT_BUDGET_EXCEEDED exactly when the prices approved under the mandate
\* so far plus the price of the call exceed budget.amount.
LifetimeDeniedIffOverBudget ==
  (/\ invocation.fn = "verifyIntentMandate"
   /\ PassedSignatureAndExpiry
   /\ MerchantMatched)
  => (DeniedFor("INTENT_BUDGET_EXCEEDED")
       <=> PriorTenths(AllDays)
             + invocation.context.price_usdc.digits
           > invocation.mandate.max_spend.digits)

LifetimeWithinBudget ==
  \A e \in totals : ~doubleGreater(e.amount, parseFloat(Decimal(BudgetUnits, 1)))

LifetimeNeverDecreases ==
  \A e \in totals :
    \E after \in totals' : after.key = e.key /\ ~doubleGreater(e.amount, after.amount)

C18_LifetimeLedger ==
  /\ [](LifetimeDeniedIffOverBudget /\ LifetimeWithinBudget)
  /\ [][LifetimeNeverDecreases]_vars

\* The last call was a mandate verification, of either kind.
Verified == invocation.fn \in {"verifyMandate", "verifyIntentMandate"}

\* C19: a step in which a mandate verification ends DENIED, whatever the
\* reason code, leaves the daily ledger and the lifetime ledger unchanged.
C19_DeniedLeavesLedgers ==
  [][(/\ now' = now
      /\ invocation'.fn \in {"verifyMandate", "verifyIntentMandate"}
      /\ ~returned'.verdict.approved)
     => (dailyTotals' = dailyTotals /\ totals' = totals)]_vars

\* C19 witness: with spends on both ledgers, a Kind A verification was
\* denied for the budget and left the daily ledger at the price approved
\* before it.
C19_Witness ==
  /\ invocation.fn = "verifyMandate"
  /\ DeniedFor("MANDATE_BUDGET_EXCEEDED")
  /\ totals # {}
  /\ getSpent(invocation.mandate.mandate_id) = invocation.spent
  /\ doubleGreater(invocation.spent, DoubleZero)

\* The budget check as the last call made it, on the ledger it read.
BudgetFailed ==
  doubleGreater(doubleAdd(invocation.spent, parseFloat(invocation.context.price_usdc)),
                parseFloat(invocation.mandate.max_spend))

Expired == invocation.mandate.expires_at < invocation.context.timestamp

Allowlisted == invocation.context.tool_id \in invocation.mandate.allowlisted_tool_ids

\* C20: the reason code of a denied verdict is that of the first failing
\* check in the order signature, expiry, then allowlist, daily budget,
\* confirmation threshold (Kind A) or merchant match, lifetime budget
\* (Kind B): a later reason code is given only when every earlier check
\* passed.
C20_FirstFailingCheck ==
  Verified =>
    /\ ~invocation.mandate.sigValid => DeniedFor("INVALID_SIGNATURE")
    /\ (invocation.mandate.sigValid /\ Expired) => DeniedFor("MANDATE_EXPIRED")
    /\ invocation.fn = "verifyMandate" =>
         /\ (PassedSignatureAndExpiry /\ ~Allowlisted)
              => DeniedFor("ENDPOINT_NOT_ALLOWLISTED")
         /\ (PassedSignatureAndExpiry /\ Allowlisted /\ BudgetFailed)
              => DeniedFor("MANDATE_BUDGET_EXCEEDED")
         /\ DeniedFor("MANDATE_CONFIRM_REQUIRED")
              => (PassedSignatureAndExpiry /\ Allowlisted /\ ~BudgetFailed)
    /\ invocation.fn = "verifyIntentMandate" =>
         /\ (PassedSignatureAndExpiry /\ ~MerchantMatched)
              => DeniedFor("MERCHANT_NOT_MATCHED")
         /\ DeniedFor("INTENT_BUDGET_EXCEEDED")
              => (PassedSignatureAndExpiry /\ MerchantMatched)
    /\ returned.verdict.approved => (PassedSignatureAndExpiry /\ ~BudgetFailed)

\* C20 witness: a Kind A mandate that is both expired and not allowlisted
\* for the tool was denied with MANDATE_EXPIRED.
C20_Witness ==
  /\ invocation.fn = "verifyMandate"
  /\ invocation.mandate.sigValid
  /\ Expired
  /\ ~Allowlisted
  /\ DeniedFor("MANDATE_EXPIRED")

\* C21: a verifyMandate call that passed the signature and expiry checks was
\* denied ENDPOINT_NOT_ALLOWLISTED exactly when allowlisted_tool_ids holds
\* neither the wildcard "*" nor the tool_id of the call.
C21_AllowlistWildcard ==
  (invocation.fn = "verifyMandate" /\ PassedSignatureAndExpiry)
  => (DeniedFor("ENDPOINT_NOT_ALLOWLISTED")
       <=> /\ "*" \notin invocation.mandate.allowlisted_tool_ids
           /\ invocation.context.tool_id \notin invocation.mandate.allowlisted_tool_ids)

\* C22: a verifyIntentMandate call that passed the signature and expiry
\* checks was denied MERCHANT_NOT_MATCHED exactly when merchants holds neither
\* "*" nor an entry whose lowercase is the gateway domain, lowercased and
\* without its port.
C22_MerchantMatch ==
  (invocation.fn = "verifyIntentMandate" /\ PassedSignatureAndExpiry)
  => (DeniedFor("MERCHANT_NOT_MATCHED")
       <=> /\ <<"*">> \notin invocation.mandate.merchants
           /\ \A merchant \in invocation.mandate.merchants :
                toLowerCase(merchant)
                  # toLowerCase(stripPort(invocation.context.gateway_domain)))

\* C23: the step in which the mandate of a request is verified changes only
\* the lifetime ledger when the decoded mandate has type "IntentMandate",
\* only the daily ledger when it has not, and never both.
C23_LedgerByType ==
  [][\A r \in Reqs :
       (pc[r] = "verifyMessage" /\ pc'[r] # "verifyMessage")
       => /\ reqs[r].mandateHeader.type = "IntentMandate" => dailyTotals' = dailyTotals
          /\ reqs[r].mandateHeader.type # "IntentMandate" => totals' = totals
          /\ (dailyTotals' = dailyTotals \/ totals' = totals)]_vars

\* What the daily ledger reads for the mandate of the verifyMandate calls.
DailyRead == getSpent("mA")

SpentToday == LogTenths(spendLog["Mandate"], "mA", {todayUTC}) > 0

\* C24: the daily ledger reads zero for a mandate as long as no spend was
\* recorded on the current UTC day, whatever the days before hold; a recorded
\* spend makes it read that amount alone when it is the first of the day and
\* the amount added to what it read otherwise; and within one day nothing
\* else changes what it reads.
C24_DailyReset ==
  /\ [](~SpentToday => DailyRead = DoubleZero)
  /\ [][LET amount == parseFloat(invocation'.context.price_usdc)
            sameDay == todayUTC' = todayUTC
        IN IF spendLog' # spendLog /\ invocation'.fn = "verifyMandate"
             THEN DailyRead' = IF SpentToday THEN doubleAdd(DailyRead, amount)
                                              ELSE amount
             ELSE sameDay => DailyRead' = DailyRead]_vars

\* A spend was approved on the second day after one on the first day, and
\* the ledger reads the price of the second alone.
C24_Witness ==
  /\ invocation.fn = "verifyMandate"
  /\ returned.verdict.approved
  /\ invocation.context.timestamp \div TicksPerDay = 1
  /\ todayUTC = 1
  /\ LogTenths(spendLog["Mandate"], "mA", {0}) > 0
  /\ LogTenths(spendLog["Mandate"], "mA", {1}) = invocation.context.price_usdc.digits
  /\ DailyRead = parseFloat(invocation.context.price_usdc)

\* C25: the mandate middleware gives a request without an X-Mandate header
\* the verdict SKIPPED and passes it on to the payment stage, and answers a
\* request whose header does not decode with 400 and ends it; neither step
\* touches a ledger, and a request answered 400 has reached neither the
\* facilitator nor the upstream and never moves again.
C25_AbsentOrUndecodable ==
  /\ [][\A r \in Reqs :
          (pc[r] = "mandate" /\ pc'[r] # "mandate")
          => /\ reqs[r].mandateHeader.type = "absent"
                  => /\ reqs'[r].mandateVerdict = "SKIPPED"
                     /\ pc'[r] = "payment"
                     /\ resp'[r] = NoResp
                     /\ dailyTotals' = dailyTotals /\ totals' = totals
             /\ reqs[r].mandateHeader.type = "malformed"
                  => /\ resp'[r].status = 400
                     /\ pc'[r] = "done"
                     /\ dailyTotals' = dailyTotals /\ totals' = totals]_vars
  /\ [](\A r \in Reqs :
          resp[r].status = 400
          => /\ pc[r] = "done"
             /\ reqs[r].mandateVerdict = "unset"
             /\ r \notin verifyCalls \cup settleCalls \cup upstreamCalls)

\* One request without a header went on to the upstream with the verdict
\* SKIPPED and another, with an undecodable header, was answered 400.
C25_Witness ==
  \E r \in Reqs, q \in Reqs :
    /\ Bears(r, NoMandate) /\ Matched(r)
    /\ reqs[r].mandateVerdict = "SKIPPED" /\ r \in upstreamCalls
    /\ Bears(q, MalformedMandate) /\ resp[q].status = 400

\* The last gate call matched a route whose price is zero.
FreeRouteMatched ==
  /\ invocation.fn = "gate"
  /\ returned.rule # NotFound
  /\ ~doubleGreater(parseFloat(returned.rule.price_usdc), DoubleZero)

\* C26: a request matched to a route whose price is 0 is not answered with
\* the 402 challenge and causes neither a verify() nor a settle() call of
\* the facilitator.
C26_FreeRouteNeverGated ==
  FreeRouteMatched
  => /\ returned.result = "no-payment-required"
     /\ ~returned.verify
     /\ ~returned.settle

\* The payment middleware of request r could not reach the facilitator:
\* processHTTPRequest threw.
Degraded(r) == reqs[r].paymentResult = "threw"

\* C27: a request to a paid route whose payment processing fails because the
\* facilitator cannot be reached is not challenged and not verified; it is
\* proxied and answered with the status the upstream returned, and its
\* receipt is the one receipt of the request, with outcome SUCCESS, the
\* price of the matched route and a null payment_tx_hash.
C27_DegradedPassThrough ==
  \A r \in Reqs :
    Degraded(r)
    => /\ pc[r] \in {"proxy", "done"}
       /\ r \notin verifyCalls \cup settleCalls
       /\ pc[r] = "done"
            => /\ r \in upstreamCalls
               /\ reqs[r].upstream # -1
                    => /\ resp[r].status = reqs[r].upstream
                       /\ Cardinality(ReceiptsOf(r)) = 1
                       /\ \A i \in ReceiptsOf(r) :
                            /\ receipts[i].outcome = "SUCCESS"
                            /\ receipts[i].price_usdc = matchRule(reqs[r].path).price_usdc
                            /\ receipts[i].payment_tx_hash = Null

\* A request carrying a payment header to the paid route was passed through
\* after the throw and answered 200 with its SUCCESS receipt.
C27_Witness ==
  \E r \in Reqs :
    /\ Degraded(r)
    /\ reqs[r].paymentHeader = "good"
    /\ pc[r] = "done" /\ resp[r].status = 200
    /\ \E i \in ReceiptsOf(r) :
         /\ receipts[i].price_usdc = Decimal(PaidPrice, 1)
         /\ receipts[i].payment_tx_hash = Null

\* C28: the admin handler of a request runs exactly when an admin key is
\* configured and the Authorization header is "Bearer " followed by that
\* key; without a configured key the request is refused (403), and with a
\* key and any other header it is refused with 401.
C28_AdminBearerOnly ==
  invocation.fn = "createAdminAuth"
  => LET adminKey == invocation.adminKey
         auth == invocation.authorization
         result == returned.result
     IN /\ result.next <=> (adminKey # NoString /\ auth = STR_Bearer \o adminKey)
        /\ adminKey = NoString => result.status = 403
        /\ (adminKey # NoString /\ auth # STR_Bearer \o adminKey) => result.status = 401
        /\ result.next <=> result.status = 0

\* The handler ran for the header "Bearer k" under the key "k".
C28_Witness ==
  /\ invocation.fn = "createAdminAuth"
  /\ invocation.adminKey = <<"k">>
  /\ invocation.authorization = STR_Bearer \o <<"k">>
  /\ returned.result.next

\* C29: every stored receipt with outcome SUCCESS has reason_code OK, a
\* response_hash and a latency_ms that are not null and the price of the
\* route its request matched; every stored receipt, and every receipt sent
\* in a response, with outcome DENIED has a reason_code other than OK.
C29_ReceiptInvariants ==
  /\ \A i \in DOMAIN receipts :
       /\ receipts[i].outcome = "SUCCESS"
            => /\ receipts[i].reason_code = "OK"
               /\ receipts[i].response_hash # Null
               /\ receipts[i].latency_ms # Null
               /\ receipts[i].price_usdc
                    = matchRule(reqs[receipts[i].request_id].path).price_usdc
       /\ receipts[i].outcome = "DENIED" => receipts[i].reason_code # "OK"
  /\ \A r \in Reqs :
       /\ resp[r].outcome = "DENIED" => resp[r].reason_code \notin {"OK", "-"}
       /\ resp[r].outcome = "SUCCESS" => resp[r].reason_code = "OK"

\* The store holds the SUCCESS receipt of a request to the paid route and
\* the DENIED receipt of an unmatched request, or a mandate denial was sent.
C29_Witness ==
  /\ \E i \in DOMAIN receipts :
       /\ receipts[i].outcome = "SUCCESS"
       /\ receipts[i].price_usdc = Decimal(PaidPrice, 1)
  /\ \/ \E i \in DOMAIN receipts : receipts[i].outcome = "DENIED"
     \/ \E r \in Reqs : resp[r].status = 403 /\ resp[r].outcome = "DENIED"

\* A non-negative decimal with at most 6 fractional digits: digits, and
\* optionally a point followed by one to six digits.
NonNegativeDecimal(str) ==
  \E whole \in 1..Len(str) :
    /\ \A i \in 1..whole : isDecDigit(str[i])
    /\ \/ whole = Len(str)
       \/ /\ str[whole + 1] = "."
          /\ Len(str) - whole - 1 \in 1..6
          /\ \A i \in (whole + 2)..Len(str) : isDecDigit(str[i])

\* C30: loadRoutesFromFile returns rules only for a file in which no two
\* entries share a tool_id and every price_usdc is a non-negative decimal
\* with at most 6 fractional digits; for every other file it throws.
C30_LoaderInvariants ==
  invocation.fn = "loadRoutesFromFile"
  => LET file == invocation.file
     IN ~returned.result.threw
        => /\ \A i, j \in DOMAIN file : file[i].tool_id = file[j].tool_id => i = j
           /\ \A i \in DOMAIN file : NonNegativeDecimal(file[i].price_usdc)

\* The (lowercased key, value) pairs of a query.
LoweredPairs(query) ==
  {[k |-> toLowerCase(query[i].k), v |-> query[i].v] : i \in DOMAIN query}

\* C31: two queries with the same set of (lowercased key, value) pairs, which
\* is the case when one is a permutation of the other or differs from it
\* only in the letter case of keys, have the same canonical string and the
\* same fingerprint.
C31_QueryCanonical ==
  (invocation.fn = "canonicalString"
     /\ LoweredPairs(invocation.a) = LoweredPairs(invocation.b))
  => /\ returned.a = returned.b
     /\ returned.hashA = returned.hashB

\* The IPv4 addresses 0.0.0.0, 127/8, 10/8, 172.16/12, 192.168/16 and
\* 169.254/16.
PrivateV4(octets) ==
  \/ octets = <<0, 0, 0, 0>>
  \/ octets[1] \in {127, 10}
  \/ octets[1] = 172 /\ octets[2] \in 16..31
  \/ octets[1] = 192 /\ octets[2] = 168
  \/ octets[1] = 169 /\ octets[2] = 254

\* C32: isPrivateOrReserved returns false for every IPv4 address outside the
\* private and reserved ranges and for every domain name other than
\* localhost.
C32_PublicHostsAllowed ==
  invocation.fn = "isPrivateOrReserved"
  => LET host == invocation.host
     IN /\ (host.kind = "v4" /\ ~PrivateV4(host.octets)) => ~returned.result
        /\ (host.kind = "name" /\ host.name # STR_localhost) => ~returned.result

\* C33: matchRule returns, among the rules of the request's method whose
\* template matches the path, one that no other such rule beats by a longer
\* concrete prefix, then by more literal segments, then by earlier
\* registration; it binds every parameter segment of that rule to the path's
\* value at that position; and it raises RouteNotFoundError exactly when no
\* rule of that method matches the path.
Candidates(rules, method, path) ==
  {i \in DOMAIN rules :
     rules[i].method = method /\ templateMatches(rules[i].path, path)}

Rank(template) == <<concretePrefix(template), literalSegments(template)>>

RetryArrives(q, r) ==
  /\ pc[q] = "done"
  /\ resp[q].status = 402
  /\ reqs[q].paymentHeader = "absent"
  /\ reqs[q].idempotencyKey # NoKey
  /\ pc[r] = "new"
  /\ pc'[r] = "checkReplay"
  /\ reqs'[r].path = reqs[q].path
  /\ reqs'[r].idempotencyKey = reqs[q].idempotencyKey
  /\ reqs'[r].paymentHeader = "good"
  /\ timeWindow(reqs[q].arrivedAt) = timeWindow(now)

C34_RetryAfterChallenge ==
  [][\A q, r \in Reqs : RetryArrives(q, r) => ~reqs'[r].seen]_vars

\* C35: every request that reached the /api/* handler is eventually sent a
\* response, whatever its X-Mandate header decodes to and whatever the
\* upstream does, and a response once sent is not followed by another.
Answered(r) == resp[r].status # 0

C35_ExactlyOneResponse ==
  /\ \A r \in Reqs : (pc[r] # "new") ~> Answered(r)
  /\ [][\A r \in Reqs : Answered(r) => resp'[r] = resp[r]]_vars

\* C36: a request to a route that requires payment is forwarded to the
\* upstream only if the facilitator verified its payment, and a request whose
\* payment processing raised an error is not forwarded.
C36_PaidOnlyWhenVerified ==
  \A r \in upstreamCalls :
    /\ requiresPayment(reqs[r].path) => reqs[r].x402Verified /\ r \in verifyCalls
    /\ reqs[r].paymentResult # "threw"

\* C37: two Kind A mandates that differ in a signed field (the tool ids
\* taken as a set) have different hash-to-sign values, and two that agree in
\* every signed field have the same.
SignedFields(mandate) ==
  [mandate_id |-> mandate.mandate_id, owner_pubkey |-> mandate.owner_pubkey,
   expires_at |-> mandate.expires_at,
   max_spend_usdc_per_day |-> mandate.max_spend_usdc_per_day,
   tools |-> {mandate.allowlisted_tool_ids[i] : i \in DOMAIN mandate.allowlisted_tool_ids},
   confirm |-> mandate.confirm]

C37_SigningPayloadInjective ==
  invocation.fn = "mandateSigningPayload"
  => ((SignedFields(invocation.a) # SignedFields(invocation.b))
      <=> (returned.hashA # returned.hashB))

\* C38: a fingerprint remembered with a TTL is in the store no longer than
\* until its deadline: once the clock has passed the deadline has() is
\* false; and a checkReplay of a fingerprint called after the deadline of
\* its last remembering returns false and remembers it anew, with a
\* deadline one TTL after that call.
EntryOf(hash) == CHOOSE e \in replayStore : e.hash = hash

C38_ExpiredAllowedAgain ==
  /\ [](\A h \in ReplayHashes :
          (lastDeadlines[h] # NeverRemembered /\ now > lastDeadlines[h])
          => ~has(replayStore, h))
  /\ [][(callsMade' = callsMade + 1
         /\ lastDeadlines[invocation'.hash] # NeverRemembered
         /\ now > lastDeadlines[invocation'.hash])
        => /\ returned'.result = FALSE
           /\ has(replayStore', invocation'.hash)
           /\ returned'.deadlines[invocation'.hash] = now + invocation'.ttlMs]_vars

\* A fingerprint remembered by one call has expired and the next call on it,
\* made after its deadline, was answered false and remembered it again.
C38_Witness ==
  /\ invocation.fn = "checkReplay"
  /\ invocation.n >= 2
  /\ invocation.at > 0
  /\ returned.result = FALSE
  /\ returned.deadlines[invocation.hash] = invocation.at + invocation.ttlMs
  /\ has(replayStore, invocation.hash)
  /\ \A h \in ReplayHashes : h # invocation.hash => returned.deadlines[h] = NeverRemembered

\* C39: settle does not throw and leaves the responses as they are; its
\* result has txHash, network and payer all null when processSettlement
\* reports no success or throws; and for a request that was not verified it
\* has them all null without processSettlement having been called.
C39_SettleNeverThrows ==
  /\ [](invocation.fn = "settle"
        => /\ ~returned.settled.threw
           /\ (invocation.outcome.threw \/ ~invocation.outcome.success)
              => returned.settled.result = NoSettlement
           /\ ~invocation.req.x402Verified
              => /\ returned.settled.result = NoSettlement
                 /\ ~returned.settled.contacted)
  /\ [][resp' = resp]_vars

\* settle was called for a verified request and processSettlement threw.
C39_Witness ==
  /\ invocation.fn = "settle"
  /\ invocation.req.x402Verified
  /\ invocation.outcome.threw
  /\ returned.settled.contacted
  /\ returned.settled.result = NoSettlement

\* C40: every verdict returned has allowed = FALSE exactly when count > 0
\* and score < MinScore; a call made before a read's time plus the TTL
\* returns that read's result at once, a call made when every read is a TTL
\* old or older asks the oracle, and a rejected read leaves the cache as it
\* was.  The time of a read is the Date.now() of the call that made it.
Starts(c) == calls[c].state # "reading" /\ calls'[c] # calls[c]

InWindow(rd) == now < rd.at + CacheTtl

C40_ReputationCache ==
  /\ [](\A c \in Callers :
          calls[c].state = "returned"
          => (~calls[c].result.allowed
              <=> /\ calls[c].result.count > 0
                  /\ calls[c].result.score.digits
                       < MinScore * 10 ^ calls[c].result.score.fractionDigits))
  /\ [][\A c \in Callers :
          /\ Starts(c)
             => /\ \A rd \in service.reads :
                     InWindow(rd)
                     => /\ calls'[c].state = "returned"
                        /\ calls'[c].result = rd.result
                /\ (\A rd \in service.reads : ~InWindow(rd))
                   => calls'[c].state = "reading"
          /\ (calls[c].state = "reading" /\ calls'[c].state = "threw")
             => cache' = cache]_vars

====
